---- MODULE Spec2Model ----
(***************************************************************************)
(* A model of src/utils/json_utils.py: _strip_comments and extract_json.    *)
(*                                                                         *)
(* Text is a sequence of one-character strings.  Every stage of            *)
(* extract_json is an operator computed the way the code computes it       *)
(* (regular expressions are modelled by the matches the re module finds),  *)
(* and the call as a whole is one action.  Indices are 1-based here and    *)
(* 0-based in the source.                                                  *)
(***************************************************************************)
EXTENDS Integers, Sequences, FiniteSets, TLC

\* ------------------------------------------------------------------------
\* Characters
\* ------------------------------------------------------------------------

NL == "\n"

BSL == "\\"

DQ == "\""

SQ == "'"

\* the backtick, which a TLA+ string cannot hold
TICK == "BACKTICK"

\* str.strip() / regex \s / the json module's whitespace, on the model's alphabet
IsSpace(c) == c \in {" ", NL, "\t", "\r"}

Digits == {"0", "1", "2", "3", "4", "5", "6", "7", "8", "9"}

Lowers == {"a", "b", "c", "d", "e", "f", "g", "h", "i", "j", "k", "l", "m",
           "n", "o", "p", "q", "r", "s", "t", "u", "v", "w", "x", "y", "z"}

Uppers == {"A", "B", "C", "D", "E", "F", "G", "H", "I", "J", "K", "L", "M",
           "N", "O", "P", "Q", "R", "S", "T", "U", "V", "W", "X", "Y", "Z"}

\* regex [a-zA-Z_]
IsWordStart(c) == c \in Lowers \cup Uppers \cup {"_"}

\* regex \w
IsWordChar(c) == c \in Lowers \cup Uppers \cup Digits \cup {"_"}

\* ------------------------------------------------------------------------
\* Strings
\* ------------------------------------------------------------------------

\* s[i-1:] of the source (i is 1-based)
Drop(s, i) == SubSeq(s, i, Len(s))

\* s[i-1:i-1+len(p)] == p
StartsAt(s, i, p) ==
    /\ i >= 1
    /\ i + Len(p) - 1 <= Len(s)
    /\ \A k \in 1..Len(p) : s[i + k - 1] = p[k]

\* str.find: the least 1-based index of c in s, 0 when there is none (-1 in the source)
Find(s, c) ==
    IF \E k \in 1..Len(s) : s[k] = c
    THEN CHOOSE k \in 1..Len(s) : s[k] = c /\ \A m \in 1..(k - 1) : s[m] # c
    ELSE 0

\* the first index >= i that holds no whitespace (Len(s)+1 when there is none)
RECURSIVE SkipSpace(_, _)
SkipSpace(s, i) ==
    IF i <= Len(s) /\ IsSpace(s[i]) THEN SkipSpace(s, i + 1) ELSE i

\* the first index >= i that holds no \w character
RECURSIVE SkipWord(_, _)
SkipWord(s, i) ==
    IF i <= Len(s) /\ IsWordChar(s[i]) THEN SkipWord(s, i + 1) ELSE i

RECURSIVE LastNonSpace(_, _)
LastNonSpace(s, j) ==
    IF j >= 1 /\ IsSpace(s[j]) THEN LastNonSpace(s, j - 1) ELSE j

\* str.strip()
Strip(s) == SubSeq(s, SkipSpace(s, 1), LastNonSpace(s, Len(s)))

\* ------------------------------------------------------------------------
\* _strip_comments
\* ------------------------------------------------------------------------
\* an inner loop of a // comment that falls back to where the comment starts
LineCommentStuck(s, i) == i - 2

\* the inner loop of a // comment: the index of the next newline (or past the end)
RECURSIVE LineCommentEnd(_, _)
LineCommentEnd(s, i) ==
    IF i <= Len(s) /\ s[i] # NL THEN LineCommentEnd(s, i + 1) ELSE i

\* a /* comment that ends before its */ and leaves it in the text
BlockCommentKeepClose(s, i) ==
    IF \E j \in i..(Len(s) - 1) : StartsAt(s, j, <<"*", "/">>)
    THEN CHOOSE j \in i..(Len(s) - 1) :
             /\ StartsAt(s, j, <<"*", "/">>)
             /\ \A m \in i..(j - 1) : ~StartsAt(s, m, <<"*", "/">>)
    ELSE Len(s) + 1

\* the inner loop of a /* comment followed by i += 2
RECURSIVE BlockCommentEnd(_, _)
BlockCommentEnd(s, i) ==
    IF i + 1 <= Len(s) /\ ~StartsAt(s, i, <<"*", "/">>)
    THEN BlockCommentEnd(s, i + 1)
    ELSE i + 2

\* _strip_comments with the two comment checks moved in front of the string
\* check: a scanner that is not string-safe
ScanStepCommentsFirst(text, st) ==
    LET i    == st.i
        char == text[i]
    IN  IF i + 1 <= Len(text) /\ StartsAt(text, i, <<"/", "/">>)
        THEN [st EXCEPT !.i = LineCommentEnd(text, i + 2)]
        ELSE IF i + 1 <= Len(text) /\ StartsAt(text, i, <<"/", "*">>)
        THEN [st EXCEPT !.i = BlockCommentEnd(text, i + 2)]
        ELSE IF st.in_string
        THEN [i         |-> i + 1,
              in_string |-> IF char # BSL /\ char = DQ /\ ~st.escape
                            THEN FALSE ELSE TRUE,
              escape    |-> IF char = BSL THEN ~st.escape
                            ELSE IF char = DQ /\ ~st.escape THEN st.escape
                            ELSE FALSE,
              result    |-> Append(st.result, char)]
        ELSE IF char = DQ
        THEN [st EXCEPT !.i = i + 1, !.in_string = TRUE,
                        !.result = Append(st.result, char)]
        ELSE [st EXCEPT !.i = i + 1, !.result = Append(st.result, char)]

\* the scanner with a backslash that sets the escape flag whatever it was
ScanStepEscapeSet(text, st) ==
    LET i    == st.i
        char == text[i]
    IN  IF st.in_string
        THEN [i         |-> i + 1,
              in_string |-> IF char # BSL /\ char = DQ /\ ~st.escape
                            THEN FALSE ELSE TRUE,
              escape    |-> IF char = BSL THEN TRUE
                            ELSE IF char = DQ /\ ~st.escape THEN st.escape
                            ELSE FALSE,
              result    |-> Append(st.result, char)]
        ELSE IF char = DQ
        THEN [st EXCEPT !.i = i + 1, !.in_string = TRUE,
                        !.result = Append(st.result, char)]
        ELSE IF i + 1 <= Len(text) /\ StartsAt(text, i, <<"/", "/">>)
        THEN [st EXCEPT !.i = LineCommentEnd(text, i + 2)]
        ELSE IF i + 1 <= Len(text) /\ StartsAt(text, i, <<"/", "*">>)
        THEN [st EXCEPT !.i = BlockCommentEnd(text, i + 2)]
        ELSE [st EXCEPT !.i = i + 1, !.result = Append(st.result, char)]

\* One iteration of the while loop of _strip_comments, from the scanner state
\* st = [i, in_string, escape, result]
ScanStep(text, st) ==
    LET i    == st.i
        char == text[i]
    IN  IF st.in_string
        THEN [i         |-> i + 1,
              in_string |-> IF char # BSL /\ char = DQ /\ ~st.escape
                            THEN FALSE ELSE TRUE,
              escape    |-> IF char = BSL THEN ~st.escape
                            ELSE IF char = DQ /\ ~st.escape THEN st.escape
                            ELSE FALSE,
              result    |-> Append(st.result, char)]
        ELSE IF char = DQ
        THEN [st EXCEPT !.i = i + 1, !.in_string = TRUE,
                        !.result = Append(st.result, char)]
        ELSE IF i + 1 <= Len(text) /\ StartsAt(text, i, <<"/", "/">>)
        THEN [st EXCEPT !.i = LineCommentEnd(text, i + 2)]
        ELSE IF i + 1 <= Len(text) /\ StartsAt(text, i, <<"/", "*">>)
        THEN [st EXCEPT !.i = BlockCommentEnd(text, i + 2)]
        ELSE [st EXCEPT !.i = i + 1, !.result = Append(st.result, char)]

ScanStart == [i |-> 1, in_string |-> FALSE, escape |-> FALSE, result |-> <<>>]

RECURSIVE ScanFrom(_, _)
ScanFrom(text, st) ==
    IF st.i <= Len(text) THEN ScanFrom(text, ScanStep(text, st)) ELSE st

\* _strip_comments(text)
StripComments(text) == ScanFrom(text, ScanStart).result

\* ------------------------------------------------------------------------
\* extract_json, stage 1: the markdown fence
\* ------------------------------------------------------------------------

TICKS == <<TICK, TICK, TICK>>

\* where the group (.*?) of ```(?:json)?\s*\n?(.*?)\n?``` starts for a match
\* that starts at i: past the fence, an optional "json" and the whitespace
FenceBodyStart(text, i) ==
    SkipSpace(text, IF StartsAt(text, i + 3, <<"j", "s", "o", "n">>)
                    THEN i + 7 ELSE i + 3)

\* \n?``` matches at j
FenceCloseAt(text, j) ==
    \/ StartsAt(text, j, TICKS)
    \/ (j <= Len(text) /\ text[j] = NL /\ StartsAt(text, j + 1, TICKS))

\* the regex matches starting at i
FenceMatchAt(text, i) ==
    /\ StartsAt(text, i, TICKS)
    /\ \E j \in FenceBodyStart(text, i)..Len(text) : FenceCloseAt(text, j)

\* re.search(...): the leftmost match; group(1) is lazy, so it ends at the
\* first place where \n?``` matches
FenceSearch(text) ==
    IF \E i \in 1..Len(text) : FenceMatchAt(text, i)
    THEN LET i == CHOOSE k \in 1..Len(text) :
                     FenceMatchAt(text, k)
                     /\ \A m \in 1..(k - 1) : ~FenceMatchAt(text, m)
             p == FenceBodyStart(text, i)
             j == CHOOSE k \in p..Len(text) :
                     FenceCloseAt(text, k)
                     /\ \A m \in p..(k - 1) : ~FenceCloseAt(text, m)
         IN  [found |-> TRUE, group |-> SubSeq(text, p, j - 1)]
    ELSE [found |-> FALSE, group |-> <<>>]

RECURSIVE SkipLower(_, _)
SkipLower(s, i) ==
    IF i <= Len(s) /\ s[i] \in Lowers THEN SkipLower(s, i + 1) ELSE i

\* re.sub(r'^```[a-z]*\n?', '', text) on a text that starts with ```
DropOpeningFence(text) ==
    LET a == SkipLower(text, 4)
        b == IF a <= Len(text) /\ text[a] = NL THEN a + 1 ELSE a
    IN  Drop(text, b)

\* \n?```\s*$ matches at m
ClosingFenceAt(text, m) ==
    LET t == IF m <= Len(text) /\ text[m] = NL THEN m + 1 ELSE m
    IN  /\ (StartsAt(text, t, TICKS) \/ StartsAt(text, m, TICKS))
        /\ \/ (StartsAt(text, t, TICKS) /\ SkipSpace(text, t + 3) > Len(text))
           \/ (StartsAt(text, m, TICKS) /\ SkipSpace(text, m + 3) > Len(text))

\* re.sub(r'\n?```\s*$', '', text)
DropClosingFence(text) ==
    IF \E m \in 1..Len(text) : ClosingFenceAt(text, m)
    THEN LET m == CHOOSE k \in 1..Len(text) :
                     ClosingFenceAt(text, k)
                     /\ \A q \in 1..(k - 1) : ~ClosingFenceAt(text, q)
         IN  SubSeq(text, 1, m - 1)
    ELSE text
\* a fence stripper that only trims the text
FenceStripOff(raw) == Strip(raw)

\* lines 73-82: text.strip(), then the fence
FenceStrip(raw) ==
    LET text == Strip(raw)
        md   == FenceSearch(text)
    IN  IF md.found THEN Strip(md.group)
        ELSE IF StartsAt(text, 1, TICKS)
        THEN DropClosingFence(DropOpeningFence(text))
        ELSE text

\* ------------------------------------------------------------------------
\* extract_json, stage 2: the first { or [
\* ------------------------------------------------------------------------
\* a locator that prefers the brace whenever there is one
StartIdxBraceFirst(text) ==
    LET start_brace   == Find(text, "{")
        start_bracket == Find(text, "[")
    IN  IF start_brace # 0 THEN start_brace ELSE start_bracket

\* line 91 (0 stands for the source's -1)
StartIdx(text) ==
    LET start_brace   == Find(text, "{")
        start_bracket == Find(text, "[")
    IN  IF start_bracket = 0 \/ (start_brace # 0 /\ start_brace < start_bracket)
        THEN start_brace
        ELSE start_bracket

\* line 94
Candidate(text) == Strip(Drop(text, StartIdx(text)))

\* ------------------------------------------------------------------------
\* extract_json, stage 2.5: the key repairs (lines 101, 104, 108) and the
\* trailing-comma removal (line 121).  A match is [ok, next, rep]: the
\* index after the match and the replacement text.
\* ------------------------------------------------------------------------

NoMatch == [ok |-> FALSE, next |-> 0, rep |-> <<>>]

At(s, i) == IF i >= 1 /\ i <= Len(s) THEN s[i] ELSE "EOF"

\* ([\{\,]\s*)([a-zA-Z_]\w*)\"\s*:   ->   \1"\2":
MatchMissingOpenQuote(s, i) ==
    LET a == SkipSpace(s, i + 1)
        b == SkipWord(s, a)
        c == SkipSpace(s, b + 1)
    IN  IF /\ s[i] \in {"{", ","}
           /\ IsWordStart(At(s, a))
           /\ At(s, b) = DQ
           /\ At(s, c) = ":"
        THEN [ok |-> TRUE, next |-> c + 1,
              rep |-> SubSeq(s, i, a - 1) \o <<DQ>> \o SubSeq(s, a, b - 1)
                      \o <<DQ, ":">>]
        ELSE NoMatch

\* ([\{\,]\s*)\"([a-zA-Z_]\w*)\s*:   ->   \1"\2":
MatchMissingCloseQuote(s, i) ==
    LET a == SkipSpace(s, i + 1)
        b == SkipWord(s, a + 1)
        c == SkipSpace(s, b)
    IN  IF /\ s[i] \in {"{", ","}
           /\ At(s, a) = DQ
           /\ IsWordStart(At(s, a + 1))
           /\ At(s, c) = ":"
        THEN [ok |-> TRUE, next |-> c + 1,
              rep |-> SubSeq(s, i, a - 1) \o <<DQ>> \o SubSeq(s, a + 1, b - 1)
                      \o <<DQ, ":">>]
        ELSE NoMatch

\* ([\{\,]\s*)([a-zA-Z_]\w*)\s*:   ->   \1"\2":
MatchBareKey(s, i) ==
    LET a == SkipSpace(s, i + 1)
        b == SkipWord(s, a)
        c == SkipSpace(s, b)
    IN  IF /\ s[i] \in {"{", ","}
           /\ IsWordStart(At(s, a))
           /\ At(s, c) = ":"
        THEN [ok |-> TRUE, next |-> c + 1,
              rep |-> SubSeq(s, i, a - 1) \o <<DQ>> \o SubSeq(s, a, b - 1)
                      \o <<DQ, ":">>]
        ELSE NoMatch

\* ,\s*([\]}])   ->   \1
MatchTrailingComma(s, i) ==
    LET a == SkipSpace(s, i + 1)
    IN  IF s[i] = "," /\ At(s, a) \in {"]", "}"}
        THEN [ok |-> TRUE, next |-> a + 1, rep |-> <<s[a]>>]
        ELSE NoMatch

\* re.sub: the matches are taken left to right and do not overlap
RECURSIVE SubFrom(_, _, _, _)
SubFrom(M(_, _), s, i, acc) ==
    IF i > Len(s) THEN acc
    ELSE LET m == M(s, i)
         IN  IF m.ok THEN SubFrom(M, s, m.next, acc \o m.rep)
             ELSE SubFrom(M, s, i + 1, Append(acc, s[i]))

\* lines 101-108
RepairKeys(s) ==
    LET b == SubFrom(MatchMissingOpenQuote, s, 1, <<>>)
        c == SubFrom(MatchMissingCloseQuote, b, 1, <<>>)
    IN  SubFrom(MatchBareKey, c, 1, <<>>)

\* line 121
RemoveTrailingCommas(s) == SubFrom(MatchTrailingComma, s, 1, <<>>)

\* ------------------------------------------------------------------------
\* Values.  A value is a record tagged by t:
\*   [t |-> "obj", kv |-> a sequence of <<key, value>> in insertion order],
\*   [t |-> "arr", items |-> a sequence],  [t |-> "str", s |-> characters],
\*   [t |-> "num", n |-> an integer],  [t |-> "bool", b |-> a boolean],
\*   [t |-> "null"],
\* and, from ast.literal_eval only,
\*   [t |-> "tuple", items |-> a sequence],  [t |-> "set", elems |-> a set].
\* ------------------------------------------------------------------------

Null == [t |-> "null"]

Bool(b) == [t |-> "bool", b |-> b]

Num(n) == [t |-> "num", n |-> n]

Str(s) == [t |-> "str", s |-> s]

Arr(items) == [t |-> "arr", items |-> items]

Obj(kv) == [t |-> "obj", kv |-> kv]

\* dict insertion: a key already present keeps its place and takes the new value
DictPut(kv, k, v) ==
    IF \E n \in 1..Len(kv) : kv[n][1] = k
    THEN [n \in 1..Len(kv) |-> IF kv[n][1] = k THEN <<k, v>> ELSE kv[n]]
    ELSE Append(kv, <<k, v>>)

\* ------------------------------------------------------------------------
\* json.loads and JSONDecoder.raw_decode (the scanner of the json module).
\* A parse is [ok, val, next, raise]: raise marks an exception that is not a
\* JSONDecodeError.  The inputs of the model hold no sign, fraction,
\* exponent, NaN or Infinity.
\* ------------------------------------------------------------------------

\* The nesting depth at which the scanner raises RecursionError instead of
\* JSONDecodeError (the interpreter's recursion limit, about 1000, scaled
\* down to the size of the model's inputs)
RecursionLimit == 3

Fail == [ok |-> FALSE, val |-> Null, next |-> 0, raise |-> FALSE]

Raise == [ok |-> FALSE, val |-> Null, next |-> 0, raise |-> TRUE]

Parsed(v, n) == [ok |-> TRUE, val |-> v, next |-> n, raise |-> FALSE]

DigitVal(c) ==
    CASE c = "0" -> 0 [] c = "1" -> 1 [] c = "2" -> 2 [] c = "3" -> 3
      [] c = "4" -> 4 [] c = "5" -> 5 [] c = "6" -> 6 [] c = "7" -> 7
      [] c = "8" -> 8 [] c = "9" -> 9

RECURSIVE SkipDigits(_, _)
SkipDigits(s, i) ==
    IF i <= Len(s) /\ s[i] \in Digits THEN SkipDigits(s, i + 1) ELSE i

RECURSIVE IntOf(_)
IntOf(ds) ==
    IF ds = <<>> THEN 0
    ELSE 10 * IntOf(SubSeq(ds, 1, Len(ds) - 1)) + DigitVal(ds[Len(ds)])

\* NUMBER_RE (0|[1-9]\d*) at i
JsonNumber(s, i) ==
    LET e == IF s[i] = "0" THEN i + 1 ELSE SkipDigits(s, i)
    IN  Parsed(Num(IntOf(SubSeq(s, i, e - 1))), e)

\* the escapes of the json module that the model's alphabet can spell
JsonEscape(c) ==
    CASE c = DQ -> DQ [] c = BSL -> BSL [] c = "/" -> "/" [] c = "n" -> NL
      [] c = "t" -> "\t" [] c = "r" -> "\r" [] c = "f" -> "\f"
      [] c = "b" -> "BACKSPACE"
      [] OTHER -> "INVALID"

HexDigits == Digits \cup {"a", "b", "c", "d", "e", "f", "A", "B", "C", "D", "E", "F"}

\* the character \uXXXX denotes, for the escapes json.dumps writes for the
\* control characters a Python string literal of the model can hold
UnicodeChar(hex) ==
    CASE hex = <<"0", "0", "0", "0">> -> "NUL"
      [] hex = <<"0", "0", "0", "1">> -> "CHR1"
      [] hex = <<"0", "0", "0", "7">> -> "BEL"
      [] hex = <<"0", "0", "0", "b">> -> "VT"
      [] OTHER -> "CHR"

\* scanstring(s, i, strict=True): i is the index after the opening quote
RECURSIVE JsonString(_, _, _)
JsonString(s, i, acc) ==
    IF i > Len(s) THEN Fail
    ELSE IF s[i] = DQ THEN Parsed(Str(acc), i + 1)
    ELSE IF s[i] \in {NL, "\t", "\r", "\f"} THEN Fail
    ELSE IF s[i] = BSL
    THEN IF StartsAt(s, i + 1, <<"u">>)
         THEN IF i + 5 <= Len(s) /\ \A k \in (i + 2)..(i + 5) : s[k] \in HexDigits
              THEN JsonString(s, i + 6,
                       Append(acc, UnicodeChar(SubSeq(s, i + 2, i + 5))))
              ELSE Fail
         ELSE IF i + 1 > Len(s) \/ JsonEscape(s[i + 1]) = "INVALID" THEN Fail
         ELSE JsonString(s, i + 2, Append(acc, JsonEscape(s[i + 1])))
    ELSE JsonString(s, i + 1, Append(acc, s[i]))

RECURSIVE JsonValue(_, _, _)
RECURSIVE JsonMembers(_, _, _, _)
RECURSIVE JsonElements(_, _, _, _)

\* the loop of JSONObject: i is the index after the opening quote of a key
JsonMembers(s, i, d, kv) ==
    LET key == JsonString(s, i, <<>>)
        c   == SkipSpace(s, key.next)
        v   == JsonValue(s, SkipSpace(s, c + 1), d)
        e   == SkipSpace(s, v.next)
        q   == SkipSpace(s, e + 1)
    IN  IF ~key.ok THEN key
        ELSE IF At(s, c) # ":" THEN Fail
        ELSE IF ~v.ok THEN v
        ELSE IF At(s, e) = "}" THEN Parsed(Obj(DictPut(kv, key.val, v.val)), e + 1)
        ELSE IF At(s, e) # "," THEN Fail
        ELSE IF At(s, q) # DQ THEN Fail
        ELSE JsonMembers(s, q + 1, d, DictPut(kv, key.val, v.val))

\* the loop of JSONArray: i is the index of the next element
JsonElements(s, i, d, items) ==
    LET v == JsonValue(s, i, d)
        e == SkipSpace(s, v.next)
    IN  IF ~v.ok THEN v
        ELSE IF At(s, e) = "]" THEN Parsed(Arr(Append(items, v.val)), e + 1)
        ELSE IF At(s, e) # "," THEN Fail
        ELSE JsonElements(s, SkipSpace(s, e + 1), d, Append(items, v.val))

\* scan_once(s, i) at nesting depth d
JsonValue(s, i, d) ==
    LET c == At(s, i)
        a == SkipSpace(s, i + 1)
    IN  IF c = DQ THEN JsonString(s, i + 1, <<>>)
        ELSE IF c = "{"
        THEN IF d >= RecursionLimit THEN Raise
             ELSE IF At(s, a) = "}" THEN Parsed(Obj(<<>>), a + 1)
             ELSE IF At(s, a) # DQ THEN Fail
             ELSE JsonMembers(s, a + 1, d + 1, <<>>)
        ELSE IF c = "["
        THEN IF d >= RecursionLimit THEN Raise
             ELSE IF At(s, a) = "]" THEN Parsed(Arr(<<>>), a + 1)
             ELSE JsonElements(s, a, d + 1, <<>>)
        ELSE IF StartsAt(s, i, <<"n", "u", "l", "l">>) THEN Parsed(Null, i + 4)
        ELSE IF StartsAt(s, i, <<"t", "r", "u", "e">>) THEN Parsed(Bool(TRUE), i + 4)
        ELSE IF StartsAt(s, i, <<"f", "a", "l", "s", "e">>)
        THEN Parsed(Bool(FALSE), i + 5)
        ELSE IF c \in Digits THEN JsonNumber(s, i)
        ELSE Fail

\* decoder.raw_decode(s): the first value of s, from index 0
RawDecode(s) == JsonValue(s, 1, 0)

\* json.loads(s): the whole of s, whitespace around the value allowed
JsonLoads(s) ==
    LET r == JsonValue(s, SkipSpace(s, 1), 0)
    IN  IF r.ok /\ SkipSpace(s, r.next) <= Len(s) THEN Fail ELSE r

\* ------------------------------------------------------------------------
\* extract_json, fix_multiline_strings (lines 131-146)
\* ------------------------------------------------------------------------

\* s.split('\n'): the lines of s from index i on, cur being the line so far
RECURSIVE SplitLines(_, _, _)
SplitLines(s, i, cur) ==
    IF i > Len(s) THEN <<cur>>
    ELSE IF s[i] = NL THEN <<cur>> \o SplitLines(s, i + 1, <<>>)
    ELSE SplitLines(s, i + 1, Append(cur, s[i]))

\* line.count('"')
CountQuotes(line) == Cardinality({k \in 1..Len(line) : line[k] = DQ})

\* line.count('\\"')
CountEscapedQuotes(line) ==
    Cardinality({k \in 1..Len(line) : StartsAt(line, k, <<BSL, DQ>>)})

\* line 138
QuoteCount(line) == CountQuotes(line) - CountEscapedQuotes(line)

\* the for loop of fix_multiline_strings from line k on: [result, in_string]
RECURSIVE MultilineLoop(_, _, _, _)
MultilineLoop(lines, k, result, in_string) ==
    IF k > Len(lines) THEN [result |-> result, in_string |-> in_string]
    ELSE LET line   == lines[k]
             joined == IF in_string
                       THEN [result EXCEPT ![Len(result)] =
                                 @ \o <<" ">> \o Strip(line)]
                       ELSE Append(result, line)
             flag   == IF QuoteCount(line) % 2 = 1 THEN ~in_string ELSE in_string
         IN  MultilineLoop(lines, k + 1, joined, flag)

\* lines 134-135: no line processed yet; k is the line the loop is at
FixStart == [k |-> 1, result |-> <<>>, in_string |-> FALSE]

\* lines 136-145, one iteration of the for loop on the lines of the text
FixLineStep(lines, st) ==
    LET line == lines[st.k]
    IN  [k         |-> st.k + 1,
         result    |-> IF st.in_string
                       THEN [st.result EXCEPT ![Len(st.result)] =
                                 @ \o <<" ">> \o Strip(line)]
                       ELSE Append(st.result, line),
         in_string |-> IF QuoteCount(line) % 2 = 1 THEN ~st.in_string
                       ELSE st.in_string]

\* '\n'.join(result)
RECURSIVE JoinLines(_)
JoinLines(lines) ==
    IF Len(lines) = 0 THEN <<>>
    ELSE IF Len(lines) = 1 THEN lines[1]
    ELSE lines[1] \o <<NL>> \o JoinLines(Tail(lines))

FixMultilineStrings(s) ==
    JoinLines(MultilineLoop(SplitLines(s, 1, <<>>), 1, <<>>, FALSE).result)

\* ------------------------------------------------------------------------
\* extract_json, the quote-style repair (lines 158-159)
\* ------------------------------------------------------------------------

\* the least j >= i with s[j..] starting with p and no newline in s[i..j-1]
\* (the lazy .*? of a pattern without DOTALL), 0 when there is none
LazyUpTo(s, i, p) ==
    LET ok(j) == StartsAt(s, j, p) /\ \A m \in i..(j - 1) : s[m] # NL
    IN  IF \E j \in i..Len(s) : ok(j)
        THEN CHOOSE j \in i..Len(s) : ok(j) /\ \A m \in i..(j - 1) : ~ok(m)
        ELSE 0

\* '(.*?)':   ->   "\1":
MatchSingleQuotedKey(s, i) ==
    LET j == LazyUpTo(s, i + 1, <<SQ, ":">>)
    IN  IF s[i] = SQ /\ j # 0
        THEN [ok |-> TRUE, next |-> j + 2,
              rep |-> <<DQ>> \o SubSeq(s, i + 1, j - 1) \o <<DQ, ":">>]
        ELSE NoMatch

\* :\s*'(.*?)'   ->   : "\1"
MatchSingleQuotedValue(s, i) ==
    LET a == SkipSpace(s, i + 1)
        j == LazyUpTo(s, a + 1, <<SQ>>)
    IN  IF s[i] = ":" /\ At(s, a) = SQ /\ j # 0
        THEN [ok |-> TRUE, next |-> j + 1,
              rep |-> <<":", " ", DQ>> \o SubSeq(s, a + 1, j - 1) \o <<DQ>>]
        ELSE NoMatch

\* line 158: the substitution for single-quoted keys
FixQuotedKeys(s) == SubFrom(MatchSingleQuotedKey, s, 1, <<>>)

FixQuotes(s) ==
    SubFrom(MatchSingleQuotedValue, SubFrom(MatchSingleQuotedKey, s, 1, <<>>),
            1, <<>>)

\* ------------------------------------------------------------------------
\* ast.literal_eval on the model's alphabet: dict, set and list displays,
\* string literals (single, double and triple quoted, adjacent literals
\* concatenated), decimal integers, True / False / None, and a tuple of
\* them at the top level.  Every other expression Python can parse is not
\* a literal, so it fails like a syntax error does.  The inputs of the
\* model hold no parenthesis, sign, dot, #, string prefix, \x, \u or \N.
\* ------------------------------------------------------------------------

Tuple(items) == [t |-> "tuple", items |-> items]

PySet(elems) == [t |-> "set", elems |-> elems]

\* what dict keys and set elements must be (a tuple cannot occur inside a display)
Hashable(v) == v.t \in {"str", "num", "bool", "null"}

\* Python's == on hashable values: True == 1 and False == 0
SameKey(a, b) ==
    \/ a = b
    \/ (a.t = "num" /\ b.t = "bool" /\ a.n = (IF b.b THEN 1 ELSE 0))
    \/ (a.t = "bool" /\ b.t = "num" /\ b.n = (IF a.b THEN 1 ELSE 0))

\* dict insertion by ==: the first of two equal keys stays, the last value wins
PyDictPut(kv, k, v) ==
    IF \E n \in 1..Len(kv) : SameKey(kv[n][1], k)
    THEN [n \in 1..Len(kv) |-> IF SameKey(kv[n][1], k) THEN <<kv[n][1], v>> ELSE kv[n]]
    ELSE Append(kv, <<k, v>>)

\* set insertion by ==
PySetAdd(elems, v) ==
    IF \E x \in elems : SameKey(x, v) THEN elems ELSE elems \cup {v}

\* whitespace between tokens: blanks, backslash-newline, and inside a
\* bracket (br) newlines too
RECURSIVE PySkip(_, _, _)
PySkip(s, i, br) ==
    IF i > Len(s) THEN i
    ELSE IF s[i] \in {" ", "\t", "\f"} THEN PySkip(s, i + 1, br)
    ELSE IF br /\ s[i] \in {NL, "\r"} THEN PySkip(s, i + 1, br)
    ELSE IF StartsAt(s, i, <<BSL, NL>>) THEN PySkip(s, i + 2, br)
    ELSE i

\* the character an octal escape of value n denotes
OctalChar(n) ==
    CASE n = 0 -> "NUL" [] n = 1 -> "CHR1" [] n = 8 -> "BACKSPACE"
      [] n = 9 -> "\t" [] n = 73 -> "I"
      [] OTHER -> "CHR"

Octals == {"0", "1", "2", "3", "4", "5", "6", "7"}

\* the end of an octal escape that starts at i: at most three digits
OctalEnd(s, i) ==
    IF At(s, i + 1) \in Octals
    THEN IF At(s, i + 2) \in Octals THEN i + 3 ELSE i + 2
    ELSE i + 1

RECURSIVE OctalOf(_)
OctalOf(ds) ==
    IF ds = <<>> THEN 0
    ELSE 8 * OctalOf(SubSeq(ds, 1, Len(ds) - 1)) + DigitVal(ds[Len(ds)])

\* the characters a backslash escape \c of a str literal stands for
PyEscape(c) ==
    CASE c = NL -> <<>> [] c = BSL -> <<BSL>> [] c = SQ -> <<SQ>>
      [] c = DQ -> <<DQ>> [] c = "a" -> <<"BEL">> [] c = "b" -> <<"BACKSPACE">>
      [] c = "f" -> <<"\f">> [] c = "n" -> <<NL>> [] c = "r" -> <<"\r">>
      [] c = "t" -> <<"\t">> [] c = "v" -> <<"VT">>
      [] OTHER -> <<BSL, c>>

\* the body of a string literal opened by quote q (three of them when
\* triple), from index i on
RECURSIVE PyStringBody(_, _, _, _, _)
PyStringBody(s, i, q, triple, acc) ==
    IF i > Len(s) THEN Fail
    ELSE IF s[i] = BSL
    THEN IF i + 1 > Len(s) THEN Fail
         ELSE IF s[i + 1] \in Octals
         THEN LET e == OctalEnd(s, i + 1)
              IN  PyStringBody(s, e, q, triple,
                      Append(acc, OctalChar(OctalOf(SubSeq(s, i + 1, e - 1)))))
         ELSE IF s[i + 1] \in {"x", "u", "U", "N"} THEN Fail
         ELSE PyStringBody(s, i + 2, q, triple, acc \o PyEscape(s[i + 1]))
    ELSE IF triple
    THEN IF StartsAt(s, i, <<q, q, q>>) THEN Parsed(Str(acc), i + 3)
         ELSE PyStringBody(s, i + 1, q, triple, Append(acc, s[i]))
    ELSE IF s[i] = q THEN Parsed(Str(acc), i + 1)
    ELSE IF s[i] = NL THEN Fail
    ELSE PyStringBody(s, i + 1, q, triple, Append(acc, s[i]))

\* one string literal at i
PyStringLiteral(s, i) ==
    IF StartsAt(s, i, <<s[i], s[i], s[i]>>)
    THEN PyStringBody(s, i + 3, s[i], TRUE, <<>>)
    ELSE PyStringBody(s, i + 1, s[i], FALSE, <<>>)

\* adjacent string literals, concatenated
RECURSIVE PyStrings(_, _, _, _)
PyStrings(s, i, br, acc) ==
    LET lit == PyStringLiteral(s, i)
        j   == PySkip(s, lit.next, br)
    IN  IF ~lit.ok THEN lit
        ELSE IF At(s, j) \in {SQ, DQ} THEN PyStrings(s, j, br, acc \o lit.val.s)
        ELSE Parsed(Str(acc \o lit.val.s), lit.next)

\* a decimal integer at i: it may not run into a name, nor start with a
\* zero unless it is zero
PyNumber(s, i) ==
    LET e  == SkipDigits(s, i)
        ds == SubSeq(s, i, e - 1)
    IN  IF IsWordChar(At(s, e)) THEN Fail
        ELSE IF ds[1] = "0" /\ \E k \in 1..Len(ds) : ds[k] # "0" THEN Fail
        ELSE Parsed(Num(IntOf(ds)), e)

\* a name at i: only the three constants are literals
PyName(s, i) ==
    LET e == SkipWord(s, i)
        w == SubSeq(s, i, e - 1)
    IN  IF w = <<"T", "r", "u", "e">> THEN Parsed(Bool(TRUE), e)
        ELSE IF w = <<"F", "a", "l", "s", "e">> THEN Parsed(Bool(FALSE), e)
        ELSE IF w = <<"N", "o", "n", "e">> THEN Parsed(Null, e)
        ELSE Fail

RECURSIVE PyExpr(_, _, _)
RECURSIVE PyListItems(_, _, _)
RECURSIVE PySetItems(_, _, _)
RECURSIVE PyDictItems(_, _, _)

\* the elements of a list display from i on
PyListItems(s, i, items) ==
    LET v  == PyExpr(s, i, TRUE)
        e  == PySkip(s, v.next, TRUE)
        e2 == PySkip(s, e + 1, TRUE)
    IN  IF ~v.ok THEN v
        ELSE IF At(s, e) = "]" THEN Parsed(Arr(Append(items, v.val)), e + 1)
        ELSE IF At(s, e) # "," THEN Fail
        ELSE IF At(s, e2) = "]" THEN Parsed(Arr(Append(items, v.val)), e2 + 1)
        ELSE PyListItems(s, e2, Append(items, v.val))

\* the elements of a set display from i on
PySetItems(s, i, elems) ==
    LET v  == PyExpr(s, i, TRUE)
        e  == PySkip(s, v.next, TRUE)
        e2 == PySkip(s, e + 1, TRUE)
    IN  IF ~v.ok THEN v
        ELSE IF At(s, e) \notin {"}", ","} THEN Fail
        ELSE IF At(s, e) = "," /\ At(s, e2) # "}"
        THEN LET rest == PySetItems(s, e2, PySetAdd(elems, v.val))
             IN  IF rest.ok /\ ~Hashable(v.val) THEN Fail ELSE rest
        ELSE IF ~Hashable(v.val) THEN Fail
        ELSE Parsed(PySet(PySetAdd(elems, v.val)),
                    IF At(s, e) = "}" THEN e + 1 ELSE e2 + 1)

\* the items of a dict display from i on
PyDictItems(s, i, kv) ==
    LET k  == PyExpr(s, i, TRUE)
        c  == PySkip(s, k.next, TRUE)
        v  == PyExpr(s, PySkip(s, c + 1, TRUE), TRUE)
        e  == PySkip(s, v.next, TRUE)
        e2 == PySkip(s, e + 1, TRUE)
    IN  IF ~k.ok THEN k
        ELSE IF At(s, c) # ":" THEN Fail
        ELSE IF ~v.ok THEN v
        ELSE IF At(s, e) \notin {"}", ","} THEN Fail
        ELSE IF At(s, e) = "," /\ At(s, e2) # "}"
        THEN LET rest == PyDictItems(s, e2, PyDictPut(kv, k.val, v.val))
             IN  IF rest.ok /\ ~Hashable(k.val) THEN Fail ELSE rest
        ELSE IF ~Hashable(k.val) THEN Fail
        ELSE Parsed(Obj(PyDictPut(kv, k.val, v.val)),
                    IF At(s, e) = "}" THEN e + 1 ELSE e2 + 1)

\* one expression at i
PyExpr(s, i, br) ==
    LET c == At(s, i)
        a == PySkip(s, i + 1, TRUE)
    IN  IF c \in {SQ, DQ} THEN PyStrings(s, i, br, <<>>)
        ELSE IF c \in Digits THEN PyNumber(s, i)
        ELSE IF IsWordStart(c) THEN PyName(s, i)
        ELSE IF c = "["
        THEN IF At(s, a) = "]" THEN Parsed(Arr(<<>>), a + 1)
             ELSE PyListItems(s, a, <<>>)
        ELSE IF c = "{"
        THEN IF At(s, a) = "}" THEN Parsed(Obj(<<>>), a + 1)
             ELSE LET first == PyExpr(s, a, TRUE)
                  IN  IF ~first.ok THEN first
                      ELSE IF At(s, PySkip(s, first.next, TRUE)) = ":"
                      THEN PyDictItems(s, a, <<>>)
                      ELSE PySetItems(s, a, {})
        ELSE Fail

\* the expressions of a top-level tuple from i on
RECURSIVE PyTupleItems(_, _, _)
PyTupleItems(s, i, items) ==
    LET v  == PyExpr(s, i, FALSE)
        e  == PySkip(s, v.next, FALSE)
        e2 == PySkip(s, e + 1, FALSE)
    IN  IF ~v.ok THEN v
        ELSE IF e > Len(s) THEN Parsed(Tuple(Append(items, v.val)), e)
        ELSE IF s[e] # "," THEN Fail
        ELSE IF e2 > Len(s) THEN Parsed(Tuple(Append(items, v.val)), e2)
        ELSE PyTupleItems(s, e2, Append(items, v.val))

\* ast.literal_eval(content): ok is FALSE where it raises
LiteralEval(content) ==
    LET first == PyExpr(content, PySkip(content, 1, FALSE), FALSE)
    IN  IF ~first.ok THEN first
        ELSE IF PySkip(content, first.next, FALSE) > Len(content) THEN first
        ELSE PyTupleItems(content, PySkip(content, 1, FALSE), <<>>)

\* ------------------------------------------------------------------------
\* extract_json, stage 5: the balanced-region scan (lines 167-174)
\* ------------------------------------------------------------------------
\* lines 167-174, one iteration of the for loop at a time, from the state
\* st = [i, depth, end]: depth is the height of the stack, end the index at
\* which the loop returned (0 while it has not)
BalStart == [i |-> 1, depth |-> 0, end |-> 0]

BalStep(s, st) ==
    LET char == s[st.i]
    IN  IF char = "{"
        THEN [st EXCEPT !.i = st.i + 1, !.depth = st.depth + 1]
        ELSE IF char = "}"
        THEN LET popped == IF st.depth > 0 THEN st.depth - 1 ELSE st.depth
             IN  IF popped = 0
                 THEN [i |-> st.i + 1, depth |-> popped, end |-> st.i]
                 ELSE [st EXCEPT !.i = st.i + 1, !.depth = popped]
        ELSE [st EXCEPT !.i = st.i + 1]

\* the for loop: the index of the first } after which the stack is empty,
\* 0 when the loop ends without one; depth is len(stack)
RECURSIVE BalancedEnd(_, _, _)
BalancedEnd(s, i, depth) ==
    IF i > Len(s) THEN 0
    ELSE IF s[i] = "{" THEN BalancedEnd(s, i + 1, depth + 1)
    ELSE IF s[i] = "}"
    THEN LET popped == IF depth > 0 THEN depth - 1 ELSE depth
         IN  IF popped = 0 THEN i ELSE BalancedEnd(s, i + 1, popped)
    ELSE BalancedEnd(s, i + 1, depth)

\* ------------------------------------------------------------------------
\* extract_json as a whole.  An outcome is
\*   kind    "value" (val returned), "none" (None returned) or "raise" (an
\*           exception left the call),
\*   attempt the parse attempt that produced the value (1..5), 0 otherwise,
\*   ran     the stages that ran, in order,
\*   logged  the number of records the call wrote to the logger (lines 176
\*           and 178 write one; the level is not modelled).
\* ------------------------------------------------------------------------

Outcome(kind, val, attempt, ran, logged) ==
    [kind |-> kind, val |-> val, attempt |-> attempt, ran |-> ran,
     logged |-> logged]

\* what a parse attempt that did not fail makes of the call
Settle(r, attempt, ran) ==
    IF r.ok THEN Outcome("value", r.val, attempt, ran, 0)
    ELSE Outcome("raise", Null, attempt, ran, 0)

\* a fallback that scans on after a region that does not evaluate, and
\* tries the region that follows
FallbackTryNext(potential_json, ran) ==
    LET end     == BalancedEnd(potential_json, 1, 0)
        content == SubSeq(potential_json, 1, end)
        r       == LiteralEval(content)
        rest    == Drop(potential_json, end + 1)
        end2    == BalancedEnd(rest, 1, 0)
        r2      == LiteralEval(SubSeq(rest, 1, end2))
    IN  IF end = 0 THEN Outcome("none", Null, 0, Append(ran, "scan"), 0)
        ELSE IF r.ok
        THEN Outcome("value", r.val, 5, ran \o <<"scan", "literal_eval">>, 0)
        ELSE IF end2 # 0 /\ r2.ok
        THEN Outcome("value", r2.val, 5,
                     ran \o <<"scan", "literal_eval", "scan", "literal_eval">>, 0)
        ELSE Outcome("none", Null, 0, ran \o <<"scan", "literal_eval", "log">>, 1)

\* lines 163-180
Fallback(potential_json, ran) ==
    LET end     == BalancedEnd(potential_json, 1, 0)
        content == SubSeq(potential_json, 1, end)
        r       == LiteralEval(content)
    IN  IF end = 0 THEN Outcome("none", Null, 0, Append(ran, "scan"), 0)
        ELSE IF r.ok
        THEN Outcome("value", r.val, 5, ran \o <<"scan", "literal_eval">>, 0)
        ELSE Outcome("none", Null, 0, ran \o <<"scan", "literal_eval", "log">>, 1)

\* the cascade with the quote repair applied to the newline-repaired text
CascadeQuotesAfterNewlines(candidate) ==
    LET potential_json == RepairKeys(StripComments(candidate))
        processed_json == RemoveTrailingCommas(potential_json)
        fixed_json     == FixMultilineStrings(processed_json)
        fix_quotes     == FixQuotes(fixed_json)
        a1   == JsonLoads(potential_json)
        a2   == RawDecode(processed_json)
        a3   == RawDecode(fixed_json)
        a4   == RawDecode(fix_quotes)
        ran1 == <<"fence", "locate", "comments", "keys", "parse1">>
        ran2 == ran1 \o <<"commas", "parse2">>
        ran3 == ran2 \o <<"multiline", "parse3">>
        ran4 == ran3 \o <<"quotes", "parse4">>
    IN  IF a1.ok \/ a1.raise THEN Settle(a1, 1, ran1)
        ELSE IF a2.ok \/ a2.raise THEN Settle(a2, 2, ran2)
        ELSE IF a3.ok \/ a3.raise THEN Settle(a3, 3, ran3)
        ELSE IF a4.ok \/ a4.raise THEN Settle(a4, 4, ran4)
        ELSE Fallback(potential_json, ran4)

\* lines 96-180: from the candidate on
Cascade(candidate) ==
    LET potential_json == RepairKeys(StripComments(candidate))
        processed_json == RemoveTrailingCommas(potential_json)
        fixed_json     == FixMultilineStrings(processed_json)
        fix_quotes     == FixQuotes(processed_json)
        a1   == JsonLoads(potential_json)
        a2   == RawDecode(processed_json)
        a3   == RawDecode(fixed_json)
        a4   == RawDecode(fix_quotes)
        ran1 == <<"fence", "locate", "comments", "keys", "parse1">>
        ran2 == ran1 \o <<"commas", "parse2">>
        ran3 == ran2 \o <<"multiline", "parse3">>
        ran4 == ran3 \o <<"quotes", "parse4">>
    IN  IF a1.ok \/ a1.raise THEN Settle(a1, 1, ran1)
        ELSE IF a2.ok \/ a2.raise THEN Settle(a2, 2, ran2)
        ELSE IF a3.ok \/ a3.raise THEN Settle(a3, 3, ran3)
        ELSE IF a4.ok \/ a4.raise THEN Settle(a4, 4, ran4)
        ELSE Fallback(potential_json, ran4)

\* extract_json without the early return of lines 88-89: start_idx is -1
\* and the candidate is text[-1:]
ExtractJsonNoEarlyReturn(text) ==
    IF text = <<>> THEN Outcome("none", Null, 0, <<>>, 0)
    ELSE LET fenced == FenceStrip(text)
         IN  IF Find(fenced, "{") = 0 /\ Find(fenced, "[") = 0
             THEN Cascade(IF fenced = <<>> THEN <<>>
                          ELSE Strip(<<fenced[Len(fenced)]>>))
             ELSE Cascade(Candidate(fenced))

\* extract_json(text)
ExtractJson(text) ==
    IF text = <<>> THEN Outcome("none", Null, 0, <<>>, 0)
    ELSE LET fenced == FenceStrip(text)
         IN  IF Find(fenced, "{") = 0 /\ Find(fenced, "[") = 0
             THEN Outcome("none", Null, 0, <<"fence", "locate">>, 0)
             ELSE Cascade(Candidate(fenced))

\* ------------------------------------------------------------------------
\* json.dumps with its defaults (separators ", " and ": ", ensure_ascii),
\* which the properties of the spec use to write a value back as text
\* ------------------------------------------------------------------------

\* the escape of one character of a string
DumpChar(c) ==
    CASE c = DQ -> <<BSL, DQ>> [] c = BSL -> <<BSL, BSL>> [] c = NL -> <<BSL, "n">>
      [] c = "\t" -> <<BSL, "t">> [] c = "\r" -> <<BSL, "r">>
      [] c = "\f" -> <<BSL, "f">> [] c = "BACKSPACE" -> <<BSL, "b">>
      [] c = "NUL" -> <<BSL, "u", "0", "0", "0", "0">>
      [] c = "CHR1" -> <<BSL, "u", "0", "0", "0", "1">>
      [] c = "BEL" -> <<BSL, "u", "0", "0", "0", "7">>
      [] c = "VT" -> <<BSL, "u", "0", "0", "0", "b">>
      [] OTHER -> <<c>>

RECURSIVE DumpChars(_)
DumpChars(s) == IF s = <<>> THEN <<>> ELSE DumpChar(Head(s)) \o DumpChars(Tail(s))

DumpStr(s) == <<DQ>> \o DumpChars(s) \o <<DQ>>

DigitChar(n) ==
    CASE n = 0 -> "0" [] n = 1 -> "1" [] n = 2 -> "2" [] n = 3 -> "3"
      [] n = 4 -> "4" [] n = 5 -> "5" [] n = 6 -> "6" [] n = 7 -> "7"
      [] n = 8 -> "8" [] n = 9 -> "9"

RECURSIVE DumpInt(_)
DumpInt(n) ==
    IF n < 10 THEN <<DigitChar(n)>> ELSE Append(DumpInt(n \div 10), DigitChar(n % 10))

\* a scalar outside a string
DumpScalar(v) ==
    CASE v.t = "num" -> DumpInt(v.n)
      [] v.t = "bool" -> IF v.b THEN <<"t", "r", "u", "e">>
                         ELSE <<"f", "a", "l", "s", "e">>
      [] v.t = "null" -> <<"n", "u", "l", "l">>

\* a dict key: a str as it is, any other scalar as the string of its text
DumpKey(k) == IF k.t = "str" THEN DumpStr(k.s) ELSE <<DQ>> \o DumpScalar(k) \o <<DQ>>

\* json.dumps raises TypeError on a set
RECURSIVE Dumpable(_)
Dumpable(v) ==
    CASE v.t = "set" -> FALSE
      [] v.t \in {"arr", "tuple"} -> \A k \in 1..Len(v.items) : Dumpable(v.items[k])
      [] v.t = "obj" -> \A k \in 1..Len(v.kv) : Dumpable(v.kv[k][2])
      [] OTHER -> TRUE

RECURSIVE Dumps(_)
RECURSIVE DumpItems(_)
RECURSIVE DumpPairs(_)

DumpItems(items) ==
    IF items = <<>> THEN <<>>
    ELSE IF Len(items) = 1 THEN Dumps(items[1])
    ELSE Dumps(items[1]) \o <<",", " ">> \o DumpItems(Tail(items))

DumpPairs(kv) ==
    LET one == DumpKey(kv[1][1]) \o <<":", " ">> \o Dumps(kv[1][2])
    IN  IF Len(kv) = 1 THEN one ELSE one \o <<",", " ">> \o DumpPairs(Tail(kv))

\* json.dumps(v) for a Dumpable v (a tuple is written as a list)
Dumps(v) ==
    CASE v.t = "str" -> DumpStr(v.s)
      [] v.t \in {"arr", "tuple"} -> <<"[">> \o DumpItems(v.items) \o <<"]">>
      [] v.t = "obj" -> IF v.kv = <<>> THEN <<"{", "}">>
                        ELSE <<"{">> \o DumpPairs(v.kv) \o <<"}">>
      [] OTHER -> DumpScalar(v)

\* ------------------------------------------------------------------------
\* Python's == on the values extract_json returns
\* ------------------------------------------------------------------------

RECURSIVE PyEq(_, _)
PyEq(a, b) ==
    IF Hashable(a) /\ Hashable(b) THEN SameKey(a, b)
    ELSE IF a.t # b.t THEN FALSE
    ELSE IF a.t \in {"arr", "tuple"}
    THEN /\ Len(a.items) = Len(b.items)
         /\ \A k \in 1..Len(a.items) : PyEq(a.items[k], b.items[k])
    ELSE IF a.t = "obj"
    THEN /\ Len(a.kv) = Len(b.kv)
         /\ \A k \in 1..Len(a.kv) : \E m \in 1..Len(b.kv) :
                SameKey(a.kv[k][1], b.kv[m][1]) /\ PyEq(a.kv[k][2], b.kv[m][2])
    ELSE /\ \A x \in a.elems : \E y \in b.elems : SameKey(x, y)
         /\ \A y \in b.elems : \E x \in a.elems : SameKey(x, y)

\* ------------------------------------------------------------------------
\* The calls of extract_json.  A text is typed piece by piece, or it is the
\* json.dumps of a value, possibly wrapped in a fence, followed by a
\* trailer, cut short or miswritten; extract_json is called on it; a value it returns
\* may be written back with json.dumps and extracted again.
\* ------------------------------------------------------------------------

VARIABLES
    text,      \* the argument of extract_json (and of _strip_comments)
    npieces,   \* the number of pieces typed
    origin,    \* how text was made: [kind, v, wrap]
    pc,        \* where the caller is
    res,       \* the outcome of the last call
    first,     \* the outcome of the call whose value was written back
    log,       \* the number of records the logger holds
    sc,        \* the scanner state of _strip_comments (ScanSpec)
    bal,       \* the state of the balanced-region scan (ScanSpec)
    fx,        \* the state of the loop of fix_multiline_strings (ScanSpec)
    now,             \* time.time(), in seconds (RateSpec)
    request_times,   \* ContentExtractor._request_times
    last_request_time, \* ContentExtractor._last_request_time
    lock,            \* the holder of ContentExtractor._lock, 0 when free
    rpc,             \* where each caller of _wait_for_rate_limit is
    current_time,    \* the local current_time of each caller
    recorded,        \* every request time recorded so far, in order
    ncalls,          \* the number of calls started
    idle,            \* the seconds that passed outside a sleep
    jina,            \* the call of extract_with_jina: [pc, url_ok, has_api_key,
                     \* requests, limited, result] (JinaSpec)
    ckpt_files,      \* the checkpoint directory: the files of each run (FlowSpec)
    existed,         \* the runs the checkpoint directory held at the start
    entry,           \* how the workflow was started: "cli" or "api"
    args,            \* the arguments: [resume, run_id], run_id 0 when not given
    fpc,             \* where the workflow is
    run_id,          \* the local run_id of __main__ and of run(), 0 for None
    events,          \* what the run did, in order
    loop,            \* the analysis loop of run(): [hv, at, analyzed, saved]
    fin,             \* the call of FinAgent.analyze_signal (FinSpec)
    wr               \* a save of CheckpointManager and what is on disk:
                     \* [pc, files, target, tmp, left, content, prev, raised,
                     \* saves, readers] (WriteSpec)

\* the variables of the calls of extract_json and of its scans
jsonVars == <<text, npieces, origin, pc, res, first, log, sc, bal, fx>>

\* the variables of the rate limit of ContentExtractor
rateVars == <<now, request_times, last_request_time, lock, rpc, current_time,
              recorded, ncalls, idle, jina>>

\* the variables of the workflow and its checkpoints
flowVars == <<ckpt_files, existed, entry, args, fpc, run_id, events, loop,
              fin, wr>>

vars == <<text, npieces, origin, pc, res, first, log, sc, bal, fx,
          now, request_times, last_request_time, lock, rpc, current_time,
          recorded, ncalls, idle, jina,
          ckpt_files, existed, entry, args, fpc, run_id, events, loop, fin,
          wr>>

\* the longest typed text, in pieces
MaxPieces == 4

Pieces ==
    { <<"{">>, <<"}">>, <<"[">>, <<"]">>, <<DQ>>, <<SQ>>, <<":">>, <<",">>,
      <<"a">>, <<"1">>, <<NL>>, <<"/", "/">>, TICKS }

\* a URL, as short as one can be: a scheme, a colon, // and a host
URL == <<"h", ":", "/", "/", "a">>

\* the strings of the serialized values
Strs ==
    { <<"a">>, <<",", "a", ":">>, <<",", "]">>, <<"a", ":", "1", "}">>,
      <<"/", "/">>, TICKS, URL, <<"a", NL, "a">>, <<SQ, "a", SQ, ":">> }

Leaves == {Str(x) : x \in Strs} \cup {Num(1), Null, Bool(TRUE)}

\* the objects and arrays that are serialized
Containers ==
    {Arr(<<>>), Obj(<<>>)}
    \cup {Arr(<<x>>) : x \in Leaves}
    \cup {Obj(<<<<Str(k), x>>>>) : k \in Strs, x \in Leaves}
    \cup {Arr(<<Obj(<<<<Str(<<"a">>), x>>>>)>>) : x \in Leaves}
    \cup {Arr(<<Num(1), x>>) : x \in Leaves}
    \cup {Obj(<<<<Str(<<"a">>), Num(1)>>, <<Str(<<"u">>), x>>>>) : x \in Leaves}
    \cup {Obj(<<<<Str(<<"u">>), Arr(<<Str(URL), Str(URL)>>)>>>>)}

Values == Containers \cup Leaves

\* what follows the first value: prose, or a second fragment
Trailers ==
    { <<" ", "a">>, <<" ">> \o Dumps(Obj(<<<<Str(<<"a">>), Num(1)>>>>)),
      <<NL>> \o Dumps(Arr(<<Num(1)>>)) }

\* The text of a Python literal (repr), as a model that answers with a
\* Python dict writes it: strings in the quote q, True, False and None,
\* trailing a comma before the closing brace or not.
PyScalarText(v, q) ==
    CASE v.t = "str"  -> <<q>> \o DumpChars(v.s) \o <<q>>
      [] v.t = "bool" -> IF v.b THEN <<"T", "r", "u", "e">>
                         ELSE <<"F", "a", "l", "s", "e">>
      [] v.t = "null" -> <<"N", "o", "n", "e">>
      [] OTHER        -> DumpScalar(v)

RECURSIVE PyPairsText(_, _)
PyPairsText(kv, q) ==
    IF kv = <<>> THEN <<>>
    ELSE PyScalarText(kv[1][1], q) \o <<":", " ">> \o PyScalarText(kv[1][2], q)
         \o (IF Len(kv) = 1 THEN <<>> ELSE <<",", " ">> \o PyPairsText(Tail(kv), q))

PyDictText(v, q, trailing) ==
    <<"{">> \o PyPairsText(v.kv, q) \o (IF trailing THEN <<",">> ELSE <<>>) \o <<"}">>

\* the dictionaries written that way: one or two members, the strings of
\* the serialized values that hold no quote and the three tokens among the
\* values
PyDicts ==
    LET leaves == {x \in Leaves : x.t = "str" => \A k \in 1..Len(x.s) : x.s[k] # SQ}
    IN  {Obj(<<<<Str(<<"a">>), x>>>>) : x \in leaves \cup {Bool(FALSE)}}
        \cup {Obj(<<<<Str(<<"a">>), x>>, <<Str(<<"u">>), y>>>>) :
                  x \in leaves, y \in {Bool(TRUE), Bool(FALSE), Null}}

\* The ways a language model miswrites the JSON it was asked for, which the
\* repairs of extract_json are there to undo.
Mistakes ==
    {"single_quotes", "single_key", "bare_key", "raw_newlines", "trailing_comma"}

\* the index of the second double quote of s, 0 when there is none
SecondQuote(s) ==
    LET a == Find(s, DQ)
    IN  IF a = 0 \/ Find(Drop(s, a + 1), DQ) = 0 THEN 0
        ELSE a + Find(Drop(s, a + 1), DQ)

\* s without its character at index k
Without(s, k) == SubSeq(s, 1, k - 1) \o Drop(s, k + 1)

\* every \n escape written as the newline it stands for
RECURSIVE RawNewlines(_)
RawNewlines(s) ==
    IF s = <<>> THEN <<>>
    ELSE IF StartsAt(s, 1, <<BSL, "n">>) THEN <<NL>> \o RawNewlines(Drop(s, 3))
    ELSE <<Head(s)>> \o RawNewlines(Tail(s))

\* the text s, miswritten in the way m
Miswritten(s, m) ==
    CASE m = "single_quotes" ->
             [k \in 1..Len(s) |-> IF s[k] = DQ THEN SQ ELSE s[k]]
      [] m = "single_key" ->
             IF SecondQuote(s) = 0 THEN s
             ELSE [k \in 1..Len(s) |->
                      IF k \in {Find(s, DQ), SecondQuote(s)} THEN SQ ELSE s[k]]
      [] m = "bare_key" ->
             IF SecondQuote(s) = 0 THEN s
             ELSE Without(Without(s, SecondQuote(s)), Find(s, DQ))
      [] m = "raw_newlines" -> RawNewlines(s)
      [] m = "trailing_comma" ->
             IF Len(s) > 2 /\ s[Len(s)] \in {"}", "]"} /\ s[Len(s) - 1] # ","
             THEN SubSeq(s, 1, Len(s) - 1) \o <<",", s[Len(s)]>>
             ELSE s
\* ------------------------------------------------------------------------
\* ContentExtractor._wait_for_rate_limit (src/utils/content_extractor.py).
\* Time is counted in whole seconds and does not run backwards.
\* ------------------------------------------------------------------------

\* line 15
_rate_limit_no_key == 20

\* line 16
_rate_window == 60

\* line 17
_min_interval == 3

\* the threads that call _wait_for_rate_limit(False)
NumCallers == 2

Callers == 1..NumCallers

\* the calls started in a run
MaxCalls == 22

\* the seconds that may pass outside a sleep in a run
MaxIdle == 2

\* time.time() when the first call starts: long after the 0.0 of line 21
Epoch == 100

\* lines 36 and 47: the request times younger than the window
Prune(times, t) == SelectSeq(times, LAMBDA x : t - x < _rate_window)

\* line 42
WaitTime(t, oldest) == _rate_window - (t - oldest) + 1

\* a wait of no length
IntervalSleepNone(t, last) == 0

\* lines 50-53: the length of the sleep that keeps the minimum interval
IntervalSleep(t, last) ==
    IF t - last < _min_interval THEN _min_interval - (t - last) ELSE 0

\* the requests one call of extract_with_jina may issue in the model
MaxRequests == 4

\* no call of extract_with_jina started
JinaStart ==
    [pc |-> "idle", url_ok |-> FALSE, has_api_key |-> FALSE, requests |-> 0,
     limited |-> 0, result |-> "pending"]

\* lines 20-22, and no call started
RateStart ==
    /\ now = Epoch
    /\ request_times = <<>>
    /\ last_request_time = 0
    /\ lock = 0
    /\ rpc = [c \in Callers |-> "idle"]
    /\ current_time = [c \in Callers |-> 0]
    /\ recorded = <<>>
    /\ ncalls = 0
    /\ idle = 0
    /\ jina = JinaStart
\* ------------------------------------------------------------------------
\* The workflow (src/main_flow.py) and its checkpoints
\* (src/utils/checkpointing.py).  A run id is a number: the order of the
\* numbers is the order of the names that resolve_latest_run_id sorts.  A
\* checkpoint file is "absent", "empty" (it holds nothing to resume from)
\* or "full".
\* ------------------------------------------------------------------------

\* the run ids of the model
MaxRunId == 3

RunIds == 1..MaxRunId

NoDir == [dir |-> FALSE, report |-> "absent", analyzed |-> "absent"]

NewDir == [dir |-> TRUE, report |-> "absent", analyzed |-> "absent"]

RunDirs ==
    {NoDir} \cup [dir : {TRUE}, report : {"absent", "empty", "full"},
                  analyzed : {"absent", "empty", "full"}]

\* the runs that have a directory
Existing(files) == {r \in RunIds : files[r].dir}

\* checkpointing.py lines 88-98: the first of the directories sorted in
\* reverse, 0 for None
resolve_latest_run_id(files) ==
    IF Existing(files) = {} THEN 0
    ELSE CHOOSE r \in Existing(files) : \A q \in Existing(files) : q <= r

\* main_flow.py line 151: os.makedirs(ckpt.run_dir, exist_ok=True)
MakeRunDir(files, r) ==
    IF files[r].dir THEN files ELSE [files EXCEPT ![r] = NewDir]

\* the high-value signals of a run, at most
MaxSignals == 4

\* main_flow.py line 312: no signal analysed; hv is the number of
\* high-value signals, at the index of the signal the loop is at, analyzed
\* the length of analyzed_signals, saved the number of entries this run
\* wrote to analyzed_signals.json
LoopStart == [hv |-> 0, at |-> 1, analyzed |-> 0, saved |-> 0]

\* the largest max_retries of a call of analyze_signal
MaxRetries == 4

\* no call of analyze_signal started; attempt is the loop variable,
\* invoked the number of calls of analyst.run, sleeps the sleeps taken and
\* responses what the attempts met, both in order
FinStart ==
    [pc |-> "idle", max_retries |-> 0, attempt |-> 0, invoked |-> 0,
     sleeps |-> <<>>, responses |-> <<>>, result |-> "pending"]

\* the most calls of save_text and save_json
MaxSaves == 2

\* the readers of the checkpoint file
NumReaders == 2

\* a path that names no file, and one that names a file of that content
NoFile == [has |-> FALSE, data |-> <<>>]

File(data) == [has |-> TRUE, data |-> data]

\* the contents a checkpoint file is given
Contents == {<<"a">>, <<"b", "c">>}

\* the inodes of the run directory: the one the target path may name at
\* the start, and one for the temporary file of each save
Inodes == 1..(MaxSaves + 1)

\* no save started; previous is what the target path holds. files is the
\* content of each inode, target and tmp the inodes the target path and
\* tmp_path name (0 for none), left the temporary files earlier saves left,
\* prev the target at the call, raised whether an exception is on its way
\* out of _atomic_write_text, and each reader holds the inode it opened
WriteStart(previous) ==
    [pc |-> "idle",
     files |-> [i \in Inodes |-> IF i = 1 THEN previous.data ELSE <<>>],
     target |-> IF previous.has THEN 1 ELSE 0,
     tmp |-> 0, left |-> {}, content |-> <<>>, prev |-> previous,
     raised |-> FALSE, saves |-> 0,
     readers |-> [r \in 1..NumReaders |->
                     [pc |-> "idle", ino |-> 0, got |-> NoFile]]]

\* no workflow started, the checkpoint directory empty
FlowStart ==
    /\ ckpt_files = [r \in RunIds |-> NoDir]
    /\ existed = {}
    /\ entry = "none"
    /\ args = [resume |-> FALSE, run_id |-> 0]
    /\ fpc = "start"
    /\ run_id = 0
    /\ events = <<>>
    /\ loop = LoopStart
    /\ fin = FinStart
    /\ wr = WriteStart(NoFile)

Pending == Outcome("pending", Null, 0, <<>>, 0)

Typed == [kind |-> "typed", v |-> Null, wrap |-> "none"]

Init ==
    /\ text = <<>>
    /\ npieces = 0
    /\ origin = Typed
    /\ pc = "build"
    /\ res = Pending
    /\ first = Pending
    /\ log = 0
    /\ sc = ScanStart
    /\ bal = BalStart
    /\ fx = FixStart
    /\ RateStart
    /\ FlowStart

\* the caller types one more piece
Type(p) ==
    /\ pc = "build"
    /\ origin.kind = "typed"
    /\ npieces < MaxPieces
    /\ text' = text \o p
    /\ npieces' = npieces + 1
    /\ UNCHANGED <<origin, pc, res, first, log, sc, bal, fx>>
    /\ UNCHANGED rateVars
    /\ UNCHANGED flowVars

\* the text is json.dumps(v)
Serialize(v) ==
    /\ pc = "build"
    /\ origin.kind = "typed"
    /\ npieces = 0
    /\ text' = Dumps(v)
    /\ origin' = [kind |-> "dumps", v |-> v, wrap |-> "none"]
    /\ npieces' = 1
    /\ UNCHANGED <<pc, res, first, log, sc, bal, fx>>
    /\ UNCHANGED rateVars
    /\ UNCHANGED flowVars

\* the serialized value is wrapped in a markdown fence, tagged json or not
WrapInFence(tagged) ==
    /\ pc = "build"
    /\ origin.kind = "dumps"
    /\ origin.wrap = "none"
    /\ text' = TICKS \o (IF tagged THEN <<"j", "s", "o", "n">> ELSE <<>>)
               \o <<NL>> \o text \o <<NL>> \o TICKS
    /\ origin' = [origin EXCEPT !.wrap = "fence"]
    /\ UNCHANGED <<npieces, pc, res, first, log, sc, bal, fx>>
    /\ UNCHANGED rateVars
    /\ UNCHANGED flowVars

\* a trailer follows the serialized value
AddTrailer(t) ==
    /\ pc = "build"
    /\ origin.kind = "dumps"
    /\ origin.wrap = "none"
    /\ text' = text \o t
    /\ origin' = [origin EXCEPT !.wrap = "trailer"]
    /\ UNCHANGED <<npieces, pc, res, first, log, sc, bal, fx>>
    /\ UNCHANGED rateVars
    /\ UNCHANGED flowVars

\* the serialized value is cut short: only its first k characters are left
Truncate(k) ==
    /\ pc = "build"
    /\ origin.kind = "dumps"
    /\ origin.wrap = "none"
    /\ k < Len(text)
    /\ text' = SubSeq(text, 1, k)
    /\ origin' = [origin EXCEPT !.wrap = "cut"]
    /\ UNCHANGED <<npieces, pc, res, first, log, sc, bal, fx>>
    /\ UNCHANGED rateVars
    /\ UNCHANGED flowVars

\* the text is a Python dict literal
SerializePy(v, q, trailing) ==
    /\ pc = "build"
    /\ origin.kind = "typed"
    /\ npieces = 0
    /\ text' = PyDictText(v, q, trailing)
    /\ origin' = [kind |-> "pyrepr", v |-> v, wrap |-> "none"]
    /\ npieces' = 1
    /\ UNCHANGED <<pc, res, first, log, sc, bal, fx>>
    /\ UNCHANGED rateVars
    /\ UNCHANGED flowVars

\* the serialized value is miswritten in one more way
Miswrite(m) ==
    /\ pc = "build"
    /\ origin.kind = "dumps"
    /\ origin.wrap \in {"none", "miswritten"}
    /\ Miswritten(text, m) # text
    /\ text' = Miswritten(text, m)
    /\ origin' = [origin EXCEPT !.wrap = "miswritten"]
    /\ UNCHANGED <<npieces, pc, res, first, log, sc, bal, fx>>
    /\ UNCHANGED rateVars
    /\ UNCHANGED flowVars

\* extract_json(text)
Call ==
    /\ pc \in {"build", "rebuild"}
    /\ res' = ExtractJson(text)
    /\ log' = log + res'.logged
    /\ pc' = IF res'.kind = "raise" THEN "raised" ELSE "returned"
    /\ UNCHANGED <<text, npieces, origin, first, sc, bal, fx>>
    /\ UNCHANGED rateVars
    /\ UNCHANGED flowVars

\* json.dumps of the value returned, to extract it again
Reserialize ==
    /\ pc = "returned"
    /\ first = Pending
    /\ res.kind = "value"
    /\ Dumpable(res.val)
    /\ text' = Dumps(res.val)
    /\ first' = res
    /\ pc' = "rebuild"
    /\ UNCHANGED <<npieces, origin, res, log, sc, bal, fx>>
    /\ UNCHANGED rateVars
    /\ UNCHANGED flowVars

\* json.dumps of the value returned raises TypeError
ReserializeRaises ==
    /\ pc = "returned"
    /\ first = Pending
    /\ res.kind = "value"
    /\ ~Dumpable(res.val)
    /\ first' = res
    /\ pc' = "dumps_raised"
    /\ UNCHANGED <<text, npieces, origin, res, log, sc, bal, fx>>
    /\ UNCHANGED rateVars
    /\ UNCHANGED flowVars

Next ==
    \/ \E p \in Pieces : Type(p)
    \/ \E v \in Values : Serialize(v)
    \/ \E tagged \in BOOLEAN : WrapInFence(tagged)
    \/ \E t \in Trailers : AddTrailer(t)
    \/ \E k \in 1..Len(text) : Truncate(k)
    \/ \E m \in Mistakes : Miswrite(m)
    \/ \E v \in PyDicts, q \in {SQ, DQ}, trailing \in BOOLEAN : SerializePy(v, q, trailing)
    \/ Call
    \/ Reserialize
    \/ ReserializeRaises

Spec == Init /\ [][Next]_vars

\* ------------------------------------------------------------------------
\* _strip_comments, one iteration of its loop at a time
\* ------------------------------------------------------------------------

\* the longest text scanned, in characters
MaxScanLen == 6

ScanAlphabet == {DQ, "/", "*", BSL, NL}

ScanInit ==
    /\ text = <<>>
    /\ npieces = 0
    /\ origin = Typed
    /\ pc = "scan_build"
    /\ res = Pending
    /\ first = Pending
    /\ log = 0
    /\ sc = ScanStart
    /\ bal = BalStart
    /\ fx = FixStart
    /\ RateStart
    /\ FlowStart

\* the caller types one more character
ScanType(c) ==
    /\ pc = "scan_build"
    /\ Len(text) < MaxScanLen
    /\ text' = Append(text, c)
    /\ UNCHANGED <<npieces, origin, pc, res, first, log, sc, bal, fx>>
    /\ UNCHANGED rateVars
    /\ UNCHANGED flowVars

\* lines 12-16: the call, up to the loop
ScanBegin ==
    /\ pc = "scan_build"
    /\ pc' = "scan"
    /\ sc' = ScanStart
    /\ UNCHANGED <<text, npieces, origin, res, first, log, bal, fx>>
    /\ UNCHANGED rateVars
    /\ UNCHANGED flowVars

Looping == pc = "scan" /\ sc.i <= Len(text)

\* lines 21-30: a character of a string
ScanInString ==
    /\ Looping
    /\ sc.in_string
    /\ sc' = ScanStep(text, sc)
    /\ UNCHANGED <<text, npieces, origin, pc, res, first, log, bal, fx>>
    /\ UNCHANGED rateVars
    /\ UNCHANGED flowVars

\* lines 33-37: the quote that opens a string
ScanOpenQuote ==
    /\ Looping
    /\ ~sc.in_string
    /\ text[sc.i] = DQ
    /\ sc' = ScanStep(text, sc)
    /\ UNCHANGED <<text, npieces, origin, pc, res, first, log, bal, fx>>
    /\ UNCHANGED rateVars
    /\ UNCHANGED flowVars

\* lines 40-44: a // comment, up to the end of the line
ScanLineComment ==
    /\ Looping
    /\ ~sc.in_string
    /\ text[sc.i] # DQ
    /\ StartsAt(text, sc.i, <<"/", "/">>)
    /\ sc' = ScanStep(text, sc)
    /\ UNCHANGED <<text, npieces, origin, pc, res, first, log, bal, fx>>
    /\ UNCHANGED rateVars
    /\ UNCHANGED flowVars

\* lines 47-52: a /* comment, up to and including its */
ScanBlockComment ==
    /\ Looping
    /\ ~sc.in_string
    /\ text[sc.i] # DQ
    /\ StartsAt(text, sc.i, <<"/", "*">>)
    /\ sc' = ScanStep(text, sc)
    /\ UNCHANGED <<text, npieces, origin, pc, res, first, log, bal, fx>>
    /\ UNCHANGED rateVars
    /\ UNCHANGED flowVars

\* lines 54-55: any other character outside a string
ScanOrdinary ==
    /\ Looping
    /\ ~sc.in_string
    /\ text[sc.i] # DQ
    /\ ~StartsAt(text, sc.i, <<"/", "/">>)
    /\ ~StartsAt(text, sc.i, <<"/", "*">>)
    /\ sc' = ScanStep(text, sc)
    /\ UNCHANGED <<text, npieces, origin, pc, res, first, log, bal, fx>>
    /\ UNCHANGED rateVars
    /\ UNCHANGED flowVars

\* line 57
ScanReturn ==
    /\ pc = "scan"
    /\ sc.i > Len(text)
    /\ pc' = "scan_done"
    /\ UNCHANGED <<text, npieces, origin, res, first, log, sc, bal, fx>>
    /\ UNCHANGED rateVars
    /\ UNCHANGED flowVars
BalAlphabet == {"{", "}", DQ}

\* the caller types one more character of a candidate
BalType(c) ==
    /\ pc \in {"scan_build", "bal_build"}
    /\ pc = "scan_build" => text = <<>>
    /\ Len(text) < MaxScanLen
    /\ text' = Append(text, c)
    /\ pc' = "bal_build"
    /\ UNCHANGED <<npieces, origin, res, first, log, sc, bal, fx>>
    /\ UNCHANGED rateVars
    /\ UNCHANGED flowVars

\* line 167: the balanced-region scan starts on the candidate
BalBegin ==
    /\ pc = "bal_build"
    /\ pc' = "bal"
    /\ bal' = BalStart
    /\ UNCHANGED <<text, npieces, origin, res, first, log, sc, fx>>
    /\ UNCHANGED rateVars
    /\ UNCHANGED flowVars

BalLooping == pc = "bal" /\ bal.end = 0 /\ bal.i <= Len(text)

\* line 169: an opening brace is pushed
BalOpenBrace ==
    /\ BalLooping
    /\ text[bal.i] = "{"
    /\ bal' = BalStep(text, bal)
    /\ UNCHANGED <<text, npieces, origin, pc, res, first, log, sc, fx>>
    /\ UNCHANGED rateVars
    /\ UNCHANGED flowVars

\* lines 170-174: a closing brace pops, and ends the scan on an empty stack
BalCloseBrace ==
    /\ BalLooping
    /\ text[bal.i] = "}"
    /\ bal' = BalStep(text, bal)
    /\ UNCHANGED <<text, npieces, origin, pc, res, first, log, sc, fx>>
    /\ UNCHANGED rateVars
    /\ UNCHANGED flowVars

\* line 168: any other character is passed over
BalOther ==
    /\ BalLooping
    /\ text[bal.i] \notin {"{", "}"}
    /\ bal' = BalStep(text, bal)
    /\ UNCHANGED <<text, npieces, origin, pc, res, first, log, sc, fx>>
    /\ UNCHANGED rateVars
    /\ UNCHANGED flowVars

\* lines 172-174 and 180: the region is found, or the text is exhausted
BalReturn ==
    /\ pc = "bal"
    /\ (bal.end # 0 \/ bal.i > Len(text))
    /\ pc' = "bal_done"
    /\ UNCHANGED <<text, npieces, origin, res, first, log, sc, bal, fx>>
    /\ UNCHANGED rateVars
    /\ UNCHANGED flowVars

FixAlphabet == {DQ, BSL, NL, "a"}

\* the caller types one more character of a candidate
FixType(c) ==
    /\ pc \in {"scan_build", "fix_build"}
    /\ pc = "scan_build" => text = <<>>
    /\ Len(text) < MaxScanLen
    /\ text' = Append(text, c)
    /\ pc' = "fix_build"
    /\ UNCHANGED <<npieces, origin, res, first, log, sc, bal, fx>>
    /\ UNCHANGED rateVars
    /\ UNCHANGED flowVars

\* lines 133-135: fix_multiline_strings starts on the candidate
FixBegin ==
    /\ pc = "fix_build"
    /\ pc' = "fix"
    /\ fx' = FixStart
    /\ UNCHANGED <<text, npieces, origin, res, first, log, sc, bal>>
    /\ UNCHANGED rateVars
    /\ UNCHANGED flowVars

\* the lines of the candidate: s.split('\n')
FixLines == SplitLines(text, 1, <<>>)

FixLooping == pc = "fix" /\ fx.k <= Len(FixLines)

\* lines 139-140: the line is joined to the last line of the result
FixJoin ==
    /\ FixLooping
    /\ fx.in_string
    /\ fx' = FixLineStep(FixLines, fx)
    /\ UNCHANGED <<text, npieces, origin, pc, res, first, log, sc, bal>>
    /\ UNCHANGED rateVars
    /\ UNCHANGED flowVars

\* lines 141-142: the line is a line of the result
FixAppend ==
    /\ FixLooping
    /\ ~fx.in_string
    /\ fx' = FixLineStep(FixLines, fx)
    /\ UNCHANGED <<text, npieces, origin, pc, res, first, log, sc, bal>>
    /\ UNCHANGED rateVars
    /\ UNCHANGED flowVars

\* line 146: the lines are exhausted
FixReturn ==
    /\ pc = "fix"
    /\ fx.k > Len(FixLines)
    /\ pc' = "fix_done"
    /\ UNCHANGED <<text, npieces, origin, res, first, log, sc, bal, fx>>
    /\ UNCHANGED rateVars
    /\ UNCHANGED flowVars

ScanNext ==
    \/ \E c \in ScanAlphabet : ScanType(c)
    \/ ScanBegin
    \/ ScanInString
    \/ ScanOpenQuote
    \/ ScanLineComment
    \/ ScanBlockComment
    \/ ScanOrdinary
    \/ ScanReturn
    \/ \E c \in BalAlphabet : BalType(c)
    \/ BalBegin
    \/ BalOpenBrace
    \/ BalCloseBrace
    \/ BalOther
    \/ BalReturn
    \/ \E c \in FixAlphabet : FixType(c)
    \/ FixBegin
    \/ FixJoin
    \/ FixAppend
    \/ FixReturn

ScanSpec == ScanInit /\ [][ScanNext]_vars

\* the loops are sequential code: a call that can take a step takes it
ScanFair == ScanSpec /\ WF_vars(ScanNext)

\* ------------------------------------------------------------------------
\* The properties
\* ------------------------------------------------------------------------

\* the call of extract_json on the text as it was built has ended
Ended == pc \in {"returned", "raised"} /\ first = Pending

\* lines 69-89: the text has a candidate
HasCandidate(t) ==
    /\ t # <<>>
    /\ (Find(FenceStrip(t), "{") # 0 \/ Find(FenceStrip(t), "[") # 0)

\* lines 91-97: the candidate, located and stripped of its comments
StrictCandidate(t) == StripComments(Candidate(FenceStrip(t)))

\* the JSON value model: objects with string keys, arrays, strings, numbers,
\* booleans and null
RECURSIVE IsJson(_)
IsJson(v) ==
    CASE v.t = "obj" -> \A k \in 1..Len(v.kv) :
                            v.kv[k][1].t = "str" /\ IsJson(v.kv[k][2])
      [] v.t = "arr" -> \A k \in 1..Len(v.items) : IsJson(v.items[k])
      [] v.t \in {"str", "num", "bool", "null"} -> TRUE
      [] OTHER -> FALSE

\* C1: whatever the input, extract_json returns a value or None; no error
\* raised inside a stage leaves the call as an exception.
C1_NeverRaises == pc # "raised"

\* C2: when the candidate, located and stripped of its comments, is valid
\* JSON as a whole, extract_json returns exactly the value a strict parse of
\* that candidate yields (no repair is applied before the first attempt).
C2_StrictParseFirst ==
    (Ended /\ HasCandidate(text) /\ JsonLoads(StrictCandidate(text)).ok)
        => (res.kind = "value" /\ res.val = JsonLoads(StrictCandidate(text)).val)

\* C3: the serialisation of a JSON object or array V followed by prose or by
\* a second complete fragment makes extract_json return exactly V.
C3_FirstMatch ==
    (Ended /\ origin.wrap = "trailer" /\ origin.v \in Containers)
        => (res.kind = "value" /\ PyEq(res.val, origin.v))

\* C4: the serialisation of a structured value V wrapped in a markdown
\* fence, tagged json or not, makes extract_json return a value equal to V.
C4_FenceTransparency ==
    (Ended /\ origin.wrap = "fence" /\ origin.v \in Containers)
        => (res.kind = "value" /\ PyEq(res.val, origin.v))

\* C5: when extract_json returns V, serialising V back to JSON text and
\* running extract_json on it returns the same V: the serialisation does not
\* fail, and the second call neither fails nor returns another value.
C5_Idempotence ==
    /\ pc # "dumps_raised"
    /\ (pc \in {"returned", "raised"} /\ first # Pending)
           => (res.kind = "value" /\ PyEq(res.val, first.val))

\* C6: _strip_comments skips a comment only outside a string, at a // or a
\* /*, and emits every character from the quote that opens a string up to
\* and including the unescaped quote that closes it, unchanged and in order.
C6_StringSafety ==
    [][(pc = "scan" /\ pc' = "scan") =>
          /\ (sc.in_string \/ text[sc.i] = DQ)
                 => /\ sc'.result = Append(sc.result, text[sc.i])
                    /\ sc'.i = sc.i + 1
          /\ sc'.result = sc.result
                 => /\ ~sc.in_string
                    /\ \/ StartsAt(text, sc.i, <<"/", "/">>)
                       \/ StartsAt(text, sc.i, <<"/", "*">>)
          /\ (sc.in_string /\ ~sc'.in_string)
                 => (text[sc.i] = DQ /\ ~sc.escape)
          /\ (sc.in_string /\ text[sc.i] = DQ /\ ~sc.escape)
                 => ~sc'.in_string]_vars

\* a string holding // came through unchanged while a comment after it went
C6_Witness ==
    /\ pc = "scan_done"
    /\ sc.result = <<DQ, "/", "/", DQ>>
    /\ Len(text) > Len(sc.result)

\* C7: when the text, stripped of its fence, holds neither { nor [, the
\* empty and the whitespace-only text included, extract_json returns None
\* at once: no comment stripping, no repair, no parse attempt, no fallback,
\* no log record.
C7_EarlyNone ==
    (pc \in {"returned", "raised"} /\ ~HasCandidate(text))
        => /\ res.kind = "none"
           /\ res.logged = 0
           /\ \A k \in 1..Len(res.ran) : res.ran[k] \in {"fence", "locate"}

\* a fenced text without brace or bracket was given and None came back
C7_Witness ==
    /\ pc = "returned"
    /\ text # <<>>
    /\ FenceStrip(text) # text
    /\ FenceStrip(text) # <<>>
    /\ ~HasCandidate(text)
    /\ res.kind = "none"

\* C8: every value extract_json returns is a JSON object or array whose
\* nodes are objects with string keys, arrays, strings, numbers, booleans
\* and null.
C8_JsonValuesOnly ==
    (pc = "returned" /\ res.kind = "value")
        => (res.val.t \in {"obj", "arr"} /\ IsJson(res.val))

\* C9: when the text is cut before the bracket that closes its outermost
\* structure, extract_json returns None, never a fragment.
C9_NoPartialSuccess ==
    (Ended /\ origin.wrap = "cut" /\ origin.v \in Containers)
        => res.kind = "none"

\* C10: extract_json writes no log record, on any path.
C10_NoLogRecord == log = 0

\* the offsets of the { and [ of a text
Openers(t) == {k \in 1..Len(t) : t[k] \in {"{", "["}}

\* the least of a non-empty set of offsets
Least(S) == CHOOSE k \in S : \A j \in S : k <= j

\* C11: the candidate starts at the smaller of the offsets of the first { and
\* the first [ that exist and runs to the end of the text; the later stages
\* work on that candidate.
C11_Locator ==
    (pc \in {"returned", "raised"} /\ HasCandidate(text))
        => LET fenced == FenceStrip(text)
               m      == Least(Openers(fenced))
           IN  /\ StartIdx(fenced) = m
               /\ Candidate(fenced) = SubSeq(fenced, m, Len(fenced))
               /\ res = Cascade(SubSeq(fenced, m, Len(fenced)))

\* a [ stood before the first { and the candidate started at the [: the
\* array was returned
C11_Witness ==
    /\ pc = "returned"
    /\ Find(text, "[") # 0
    /\ Find(text, "{") > Find(text, "[")
    /\ res.kind = "value"
    /\ res.val.t = "arr"

\* the offsets at which a run of three backticks starts
TicksAt(t) == {k \in 1..Len(t) : StartsAt(t, k, TICKS)}

\* where the content starts after the opening marker at i: past the
\* backticks and the tag json, if it is there
AfterMarker(t, i) ==
    IF StartsAt(t, i + 3, <<"j", "s", "o", "n">>) THEN i + 7 ELSE i + 3

\* the opening markers that a closing marker follows
OpeningMarkers(t) ==
    {i \in TicksAt(t) : \E j \in TicksAt(t) : j >= AfterMarker(t, i)}

\* the trimmed content between the first opening marker and the nearest
\* closing marker after it
FenceContent(t) ==
    LET i == Least(OpeningMarkers(t))
        b == AfterMarker(t, i)
        j == Least({k \in TicksAt(t) : k >= b})
    IN  Strip(SubSeq(t, b, j - 1))

\* C12: with a well-formed fence pair in the text, the later stages see only
\* the trimmed content between the first opening marker and the nearest
\* closing marker after it: the call returns what it returns on that content
\* alone.  With no fence marker in the text, the later stages see the text
\* itself (its leading and trailing whitespace trimmed, which the locator
\* and the candidate do not keep anyway): the call returns what locating
\* and parsing the text itself give.
C12_FenceStripper ==
    pc \in {"returned", "raised"} =>
        LET t == Strip(text)
        IN  /\ OpeningMarkers(t) # {}
                => /\ FenceStrip(text) = FenceContent(t)
                   /\ res.kind = ExtractJson(FenceContent(t)).kind
                   /\ res.val = ExtractJson(FenceContent(t)).val
            /\ TicksAt(text) = {}
                => /\ FenceStrip(text) = t
                   /\ res.kind = (IF Openers(text) = {} THEN "none"
                                  ELSE Cascade(Candidate(text)).kind)
                   /\ res.val = (IF Openers(text) = {} THEN Null
                                 ELSE Cascade(Candidate(text)).val)

\* a bracket stood before the fence pair, the content of the pair held none,
\* and None came back
C12_Witness ==
    /\ pc = "returned"
    /\ OpeningMarkers(Strip(text)) # {}
    /\ Find(text, "[") # 0
    /\ Find(text, "[") < Least(OpeningMarkers(Strip(text)))
    /\ Openers(FenceContent(Strip(text))) = {}
    /\ FenceContent(Strip(text)) # <<>>
    /\ res.kind = "none"

\* C13: the loops of a call end.  Every iteration of the loop of
\* _strip_comments moves the index forward, in every branch, and the scan
\* returns; every iteration of the balanced-region scan moves to the next
\* character, so that no character is visited twice, and the scan ends.
C13_Terminates ==
    /\ [][(pc = "scan" /\ pc' = "scan") => sc'.i > sc.i]_vars
    /\ [][(pc = "bal" /\ pc' = "bal") => bal'.i = bal.i + 1]_vars
    /\ [](pc = "bal" => bal.i <= Len(text) + 1)
    /\ (pc = "scan") ~> (pc = "scan_done")
    /\ (pc = "bal") ~> (pc = "bal_done")

\* the scan returned from an unterminated block comment, the index past the
\* end of the text
C13_Witness ==
    /\ pc = "scan_done"
    /\ sc.i > Len(text) + 1
    /\ sc.result # text

\* ------------------------------------------------------------------------
\* The calls of _wait_for_rate_limit(False), by concurrent callers
\* ------------------------------------------------------------------------

RateInit ==
    /\ text = <<>>
    /\ npieces = 0
    /\ origin = Typed
    /\ pc = "rate"
    /\ res = Pending
    /\ first = Pending
    /\ log = 0
    /\ sc = ScanStart
    /\ bal = BalStart
    /\ fx = FixStart
    /\ RateStart
    /\ FlowStart

\* line 32: the caller takes the lock, which is free
Acquire(c) ==
    /\ rpc[c] = "idle"
    /\ ncalls < MaxCalls
    /\ lock = 0
    /\ lock' = c
    /\ ncalls' = ncalls + 1
    /\ rpc' = [rpc EXCEPT ![c] = "locked"]
    /\ UNCHANGED <<now, request_times, last_request_time, current_time,
                   recorded, idle, jina>>
    /\ UNCHANGED jsonVars
    /\ UNCHANGED flowVars

\* lines 33-36: the clock is read and the expired request times are dropped
ReadClock(c) ==
    /\ rpc[c] = "locked"
    /\ current_time' = [current_time EXCEPT ![c] = now]
    /\ request_times' = Prune(request_times, now)
    /\ rpc' = [rpc EXCEPT ![c] = "limit"]
    /\ UNCHANGED <<now, last_request_time, lock, recorded, ncalls, idle, jina>>
    /\ UNCHANGED jsonVars
    /\ UNCHANGED flowVars

\* lines 39-47: with the window full, sleep until the oldest request time
\* has expired, read the clock again and drop the expired request times
CheckLimit(c) ==
    /\ rpc[c] = "limit"
    /\ IF /\ Len(request_times) >= _rate_limit_no_key
          /\ WaitTime(current_time[c], request_times[1]) > 0
       THEN /\ now' = now + WaitTime(current_time[c], request_times[1])
            /\ current_time' = [current_time EXCEPT ![c] = now']
            /\ request_times' = Prune(request_times, now')
       ELSE UNCHANGED <<now, current_time, request_times>>
    /\ rpc' = [rpc EXCEPT ![c] = "interval"]
    /\ UNCHANGED <<last_request_time, lock, recorded, ncalls, idle, jina>>
    /\ UNCHANGED jsonVars
    /\ UNCHANGED flowVars

\* lines 50-53: sleep until the minimum interval has passed
Interval(c) ==
    /\ rpc[c] = "interval"
    /\ now' = now + IntervalSleep(current_time[c], last_request_time)
    /\ rpc' = [rpc EXCEPT ![c] = "record"]
    /\ UNCHANGED <<request_times, last_request_time, lock, current_time,
                   recorded, ncalls, idle, jina>>
    /\ UNCHANGED jsonVars
    /\ UNCHANGED flowVars

\* line 56: the request time is recorded
Record(c) ==
    /\ rpc[c] = "record"
    /\ request_times' = Append(request_times, now)
    /\ recorded' = Append(recorded, now)
    /\ rpc' = [rpc EXCEPT ![c] = "stamp"]
    /\ UNCHANGED <<now, last_request_time, lock, current_time, ncalls, idle, jina>>
    /\ UNCHANGED jsonVars
    /\ UNCHANGED flowVars

\* line 57, and the end of the with block: the lock is released and the
\* local current_time is gone
Stamp(c) ==
    /\ rpc[c] = "stamp"
    /\ last_request_time' = now
    /\ lock' = 0
    /\ rpc' = [rpc EXCEPT ![c] = "idle"]
    /\ current_time' = [current_time EXCEPT ![c] = 0]
    /\ UNCHANGED <<now, request_times, recorded, ncalls, idle, jina>>
    /\ UNCHANGED jsonVars
    /\ UNCHANGED flowVars

\* a second passes outside a sleep: between two calls, between two
\* statements, or at the end of a sleep that lasts longer than asked
Tick ==
    /\ idle < MaxIdle
    /\ now' = now + 1
    /\ idle' = idle + 1
    /\ UNCHANGED <<request_times, last_request_time, lock, rpc, current_time,
                   recorded, ncalls, jina>>
    /\ UNCHANGED jsonVars
    /\ UNCHANGED flowVars

RateNext ==
    \/ \E c \in Callers : Acquire(c)
    \/ \E c \in Callers : ReadClock(c)
    \/ \E c \in Callers : CheckLimit(c)
    \/ \E c \in Callers : Interval(c)
    \/ \E c \in Callers : Record(c)
    \/ \E c \in Callers : Stamp(c)
    \/ Tick

RateSpec == RateInit /\ [][RateNext]_vars

\* C14: whatever the callers and their interleaving, the request times
\* recorded are pairwise at least _min_interval apart, at most
\* _rate_limit_no_key of them lie in any window of _rate_window seconds, and
\* the list never holds more than _rate_limit_no_key request times younger
\* than the window.
C14_RateLimit ==
    /\ \A i, j \in 1..Len(recorded) :
           i < j => recorded[j] - recorded[i] >= _min_interval
    /\ \A j \in 1..Len(recorded) :
           Cardinality({i \in 1..j : recorded[j] - recorded[i] < _rate_window})
               <= _rate_limit_no_key
    /\ Cardinality({k \in 1..Len(request_times) :
                        now - request_times[k] < _rate_window})
           <= _rate_limit_no_key

\* two callers took turns, the window was full and the next request time
\* was recorded only when the oldest one had expired
C14_Witness ==
    /\ Len(recorded) > _rate_limit_no_key
    /\ idle = 0
    /\ recorded[Len(recorded)] - recorded[Len(recorded) - 1] > _min_interval
    /\ Len(request_times) = _rate_limit_no_key

\* ------------------------------------------------------------------------
\* A run of the workflow over a checkpoint directory left by earlier runs
\* ------------------------------------------------------------------------

FlowInit ==
    /\ text = <<>>
    /\ npieces = 0
    /\ origin = Typed
    /\ pc = "flow"
    /\ res = Pending
    /\ first = Pending
    /\ log = 0
    /\ sc = ScanStart
    /\ bal = BalStart
    /\ fx = FixStart
    /\ RateStart
    /\ ckpt_files \in [RunIds -> RunDirs]
    /\ existed = Existing(ckpt_files)
    /\ entry = "none"
    /\ args = [resume |-> FALSE, run_id |-> 0]
    /\ fpc = "start"
    /\ run_id = 0
    /\ events = <<>>
    /\ loop = LoopStart
    /\ fin = FinStart
    /\ wr = WriteStart(NoFile)

\* main_flow.py lines 398-415: the command line is parsed
CommandLine(resume, rid) ==
    /\ fpc = "start"
    /\ entry' = "cli"
    /\ args' = [resume |-> resume, run_id |-> rid]
    /\ fpc' = "main"
    /\ UNCHANGED <<ckpt_files, existed, run_id, events, loop, fin, wr>>
    /\ UNCHANGED jsonVars
    /\ UNCHANGED rateVars

\* main_flow.py lines 429-443: __main__ settles its run_id, the one given
\* or a new time stamp, and calls run() with it
MainRunId(stamp) ==
    /\ fpc = "main"
    /\ stamp \notin Existing(ckpt_files)
    /\ run_id' = IF args.run_id # 0 THEN args.run_id ELSE stamp
    /\ fpc' = "run"
    /\ UNCHANGED <<ckpt_files, existed, entry, args, events, loop, fin, wr>>
    /\ UNCHANGED jsonVars
    /\ UNCHANGED rateVars

\* main_flow.py lines 123-132: run() is called by a program
ApiCall(resume, rid) ==
    /\ fpc = "start"
    /\ entry' = "api"
    /\ args' = [resume |-> resume, run_id |-> rid]
    /\ run_id' = rid
    /\ fpc' = "run"
    /\ UNCHANGED <<ckpt_files, existed, events, loop, fin, wr>>
    /\ UNCHANGED jsonVars
    /\ UNCHANGED rateVars

\* main_flow.py lines 145-162: run() resolves its run_id, makes the
\* directory of the run and writes state.json
RunResolve(stamp) ==
    /\ fpc = "run"
    /\ LET latest   == IF args.resume /\ run_id = 0
                       THEN resolve_latest_run_id(ckpt_files) ELSE run_id
           resolved == IF latest # 0 THEN latest ELSE stamp
       IN  /\ latest = 0 => stamp \notin Existing(ckpt_files)
           /\ run_id' = resolved
           /\ ckpt_files' = MakeRunDir(ckpt_files, resolved)
           /\ events' = IF args.resume /\ run_id = 0
                        THEN Append(events, "resolve_latest") ELSE events
    /\ fpc' = "fast"
    /\ UNCHANGED <<existed, entry, args, loop, fin, wr>>
    /\ UNCHANGED jsonVars
    /\ UNCHANGED rateVars

\* lines 168-180: the report of the run is there, and is returned
FastResume ==
    /\ fpc = "fast"
    /\ args.resume
    /\ ckpt_files[run_id].report = "full"
    /\ events' = Append(events, "report_returned")
    /\ fpc' = "done"
    /\ UNCHANGED <<ckpt_files, existed, entry, args, run_id, loop, fin, wr>>
    /\ UNCHANGED jsonVars
    /\ UNCHANGED rateVars

\* lines 182-307: trend discovery and filtering, which leaves hv
\* high-value signals; without news run() returns
Discover(news, hv) ==
    /\ fpc = "fast"
    /\ ~(args.resume /\ ckpt_files[run_id].report = "full")
    /\ ~news => hv = 0
    /\ events' = Append(events, "discover")
    /\ fpc' = IF news THEN "analysis" ELSE "done"
    /\ loop' = [LoopStart EXCEPT !.hv = hv]
    /\ UNCHANGED <<ckpt_files, existed, entry, args, run_id, fin, wr>>
    /\ UNCHANGED jsonVars
    /\ UNCHANGED rateVars

\* the loop is run whatever was loaded
SkipsLoopNever(n) == FALSE

\* line 321: analyzed_signals, of n entries, is not empty
SkipsLoop(n) == n > 0

\* lines 314-321: analyzed_signals.json of the run is there and is loaded;
\* a list of n >= 1 entries becomes analyzed_signals and the loop is
\* skipped; anything else (n = 0) leaves analyzed_signals empty
AnalysisResume(n) ==
    /\ fpc = "analysis"
    /\ args.resume
    /\ ckpt_files[run_id].analyzed # "absent"
    /\ n > 0 <=> ckpt_files[run_id].analyzed = "full"
    /\ events' = IF n > 0 THEN Append(events, "analysis_loaded") ELSE events
    /\ loop' = [loop EXCEPT !.analyzed = n]
    /\ fpc' = IF SkipsLoop(n) THEN "report" ELSE "loop"
    /\ UNCHANGED <<ckpt_files, existed, entry, args, run_id, fin, wr>>
    /\ UNCHANGED jsonVars
    /\ UNCHANGED rateVars

\* lines 314 and 321-324: without resume, or without analyzed_signals.json
\* in the run, analyzed_signals is empty and the loop begins
AnalyseBegin ==
    /\ fpc = "analysis"
    /\ ~(args.resume /\ ckpt_files[run_id].analyzed # "absent")
    /\ fpc' = "loop"
    /\ UNCHANGED <<ckpt_files, existed, entry, args, run_id, events, loop, fin, wr>>
    /\ UNCHANGED jsonVars
    /\ UNCHANGED rateVars

\* the signals analyzed_signals holds after one more success that are
\* written to analyzed_signals.json (lines 352-353)
SavedAfter(n, saved) == IF n % 3 = 0 THEN n ELSE saved

\* lines 324-357: one iteration of the loop: the signal is analysed; with
\* a result (ok) it is appended to analyzed_signals, and the list is saved
\* when its length is a multiple of 3
AnalyseSignal(ok) ==
    /\ fpc = "loop"
    /\ loop.at <= loop.hv
    /\ loop' = IF ok
               THEN [loop EXCEPT !.at = @ + 1, !.analyzed = @ + 1,
                                 !.saved = SavedAfter(loop.analyzed + 1, @)]
               ELSE [loop EXCEPT !.at = @ + 1]
    /\ ckpt_files' = IF ok /\ SavedAfter(loop.analyzed + 1, 0) # 0
                     THEN [ckpt_files EXCEPT ![run_id].analyzed = "full"]
                     ELSE ckpt_files
    /\ events' = IF ok THEN Append(events, "signal_analysed") ELSE events
    /\ UNCHANGED <<existed, entry, args, fpc, run_id, fin, wr>>
    /\ UNCHANGED jsonVars
    /\ UNCHANGED rateVars

\* line 359: the loop is over and analyzed_signals.json is written
AnalyseEnd ==
    /\ fpc = "loop"
    /\ loop.at > loop.hv
    /\ loop' = [loop EXCEPT !.saved = loop.analyzed]
    /\ ckpt_files' = [ckpt_files EXCEPT ![run_id].analyzed =
                          IF loop.analyzed > 0 THEN "full" ELSE "empty"]
    /\ events' = Append(events, "analysis_run")
    /\ fpc' = "report"
    /\ UNCHANGED <<existed, entry, args, run_id, fin, wr>>
    /\ UNCHANGED jsonVars
    /\ UNCHANGED rateVars

\* lines 365-367 and 374-392: report.md of the run is there, and is used
ReportResume ==
    /\ fpc = "report"
    /\ args.resume
    /\ ckpt_files[run_id].report # "absent"
    /\ events' = Append(events, "report_loaded")
    /\ fpc' = "done"
    /\ UNCHANGED <<ckpt_files, existed, entry, args, run_id, loop, fin, wr>>
    /\ UNCHANGED jsonVars
    /\ UNCHANGED rateVars

\* lines 368-392: the report is generated and report.md is written
Report ==
    /\ fpc = "report"
    /\ ~(args.resume /\ ckpt_files[run_id].report # "absent")
    /\ ckpt_files' = [ckpt_files EXCEPT ![run_id].report = "full"]
    /\ events' = Append(events, "report_generated")
    /\ fpc' = "done"
    /\ UNCHANGED <<existed, entry, args, run_id, loop, fin, wr>>
    /\ UNCHANGED jsonVars
    /\ UNCHANGED rateVars

FlowNext ==
    \/ \E resume \in BOOLEAN, rid \in {0} \cup RunIds : CommandLine(resume, rid)
    \/ \E stamp \in RunIds : MainRunId(stamp)
    \/ \E resume \in BOOLEAN, rid \in {0} \cup RunIds : ApiCall(resume, rid)
    \/ \E stamp \in RunIds : RunResolve(stamp)
    \/ FastResume
    \/ \E news \in BOOLEAN, hv \in 0..MaxSignals : Discover(news, hv)
    \/ \E n \in 0..MaxSignals : AnalysisResume(n)
    \/ AnalyseBegin
    \/ \E ok \in BOOLEAN : AnalyseSignal(ok)
    \/ AnalyseEnd
    \/ ReportResume
    \/ Report

FlowSpec == FlowInit /\ [][FlowNext]_vars

\* C15: started from the command line with --resume and without --run-id,
\* the workflow resolves the latest run of the checkpoint directory and
\* works on the checkpoints of that run, not on a fresh run.
C15_CommandLineResume ==
    (/\ entry = "cli"
     /\ args.resume
     /\ args.run_id = 0
     /\ existed # {}
     /\ fpc \in {"fast", "analysis", "loop", "report", "done"})
        => /\ run_id = resolve_latest_run_id([r \in RunIds |->
                           IF r \in existed THEN NewDir ELSE NoDir])
           /\ run_id \in existed

\* ------------------------------------------------------------------------
\* The cascade of extract_json and its fallback (claims C16 to C20)
\* ------------------------------------------------------------------------

\* lines 97-108: the candidate when the first parse attempt is made
PotentialJson(t) == RepairKeys(StripComments(Candidate(FenceStrip(t))))

\* lines 167-174: what the fallback makes of potential_json
FallbackAttempt(p) ==
    IF BalancedEnd(p, 1, 0) = 0 THEN Fail
    ELSE LiteralEval(SubSeq(p, 1, BalancedEnd(p, 1, 0)))

\* lines 114-174: the five attempts on the text t, each taken alone
Attempts(t) ==
    LET p == PotentialJson(t)
        q == RemoveTrailingCommas(p)
    IN  << JsonLoads(p), RawDecode(q), RawDecode(FixMultilineStrings(q)),
           RawDecode(FixQuotes(q)), FallbackAttempt(p) >>

\* the stage that is attempt k
AttemptStage == <<"parse1", "parse2", "parse3", "parse4", "scan">>

\* the call made attempt k
Made(k) == \E n \in 1..Len(res.ran) : res.ran[n] = AttemptStage[k]

\* C16: the attempts are made in the order strict parse, prefix parse after
\* trailing-comma removal, prefix parse after newline repair on top of it,
\* prefix parse after quote repair of the trailing-comma-removed text,
\* balanced-region fallback; an attempt is made only if every earlier one
\* failed, and the value returned is that of the earliest attempt that
\* succeeds.
C16_CascadeOrder ==
    (Ended /\ HasCandidate(text)) =>
        LET a   == Attempts(text)
            won == {k \in 1..5 : a[k].ok}
        IN  /\ Made(1)
            /\ \A k \in 2..5 : Made(k) <=> \A j \in 1..(k - 1) : ~a[j].ok /\ ~a[j].raise
            /\ \A k \in 1..4 : \A m \in (k + 1)..5 :
                   (Made(k) /\ Made(m)) =>
                       \E x, y \in 1..Len(res.ran) :
                           x < y /\ res.ran[x] = AttemptStage[k]
                                 /\ res.ran[y] = AttemptStage[m]
            /\ res.kind # "raise" =>
                   /\ res.kind = "value" <=> won # {}
                   /\ won # {} => /\ res.attempt = Least(won)
                                  /\ res.val = a[Least(won)].val

\* single quotes were repaired and the fourth attempt gave the value, after
\* three attempts that failed
C16_Witness ==
    /\ Ended
    /\ origin.wrap = "miswritten"
    /\ res.kind = "value"
    /\ res.attempt = 4
    /\ Made(3)
    /\ ~Made(5)

\* the value v holds the URL as an object value or as an array element, at
\* any depth, and its keys are plain words
RECURSIVE HoldsUrl(_)
HoldsUrl(v) ==
    CASE v.t = "str" -> v.s = URL
      [] v.t = "arr" -> \E k \in 1..Len(v.items) : HoldsUrl(v.items[k])
      [] v.t = "obj" -> /\ \E k \in 1..Len(v.kv) : HoldsUrl(v.kv[k][2])
                        /\ \A k \in 1..Len(v.kv) : v.kv[k][1].s \in {<<"a">>, <<"u">>}
      [] OTHER -> FALSE

\* the object v, serialized with its first key left bare
BareFirstKey(v) == Miswritten(Dumps(v), "bare_key")

\* C17: a double-quoted string holding a URL comes back verbatim wherever
\* it sits in the structure, as an object value or as an array element,
\* first or after a comma, also when a key of the same candidate is bare
\* and has to be quoted.
C17_UrlPreserved ==
    (/\ Ended
     /\ origin.kind = "dumps"
     /\ origin.v \in Containers
     /\ HoldsUrl(origin.v)
     /\ \/ text = Dumps(origin.v)
        \/ origin.v.t = "obj" /\ text = BareFirstKey(origin.v))
        => (res.kind = "value" /\ PyEq(res.val, origin.v))

\* the string state in which a scan that tells strings as _strip_comments
\* does (lines 27-38) reaches the character at index k of t
RECURSIVE StringStateAt(_, _)
StringStateAt(t, k) ==
    IF k = 1 THEN [in_string |-> FALSE, escape |-> FALSE]
    ELSE LET before == StringStateAt(t, k - 1)
             char   == t[k - 1]
         IN  IF before.in_string
             THEN IF before.escape THEN [in_string |-> TRUE, escape |-> FALSE]
                  ELSE IF char = BSL THEN [in_string |-> TRUE, escape |-> TRUE]
                  ELSE IF char = DQ THEN [in_string |-> FALSE, escape |-> FALSE]
                  ELSE before
             ELSE IF char = DQ THEN [in_string |-> TRUE, escape |-> FALSE]
                  ELSE before

\* C18: the balanced-region scan is string-aware: a brace inside a string
\* literal of the candidate neither increments nor decrements the depth,
\* and the region does not end there.
C18_StringAwareScan ==
    [][(pc = "bal" /\ pc' = "bal" /\ StringStateAt(text, bal.i).in_string)
          => (bal'.depth = bal.depth /\ bal'.end = 0)]_vars

\* line 173: the index at which the scan of the text t ends, 0 for none
RegionEnd(t) == BalancedEnd(PotentialJson(t), 1, 0)

\* the text of the candidate from its first { to the } that ends the scan
RegionFromFirstBrace(t) ==
    SubSeq(PotentialJson(t), Find(PotentialJson(t), "{"), RegionEnd(t))

\* C19: the region handed to the lenient interpreter begins at the first {
\* of the candidate and ends at the } at which the depth returns to zero,
\* also when the candidate begins with [: what the call returns is what the
\* interpreter makes of that region.
C19_RegionFromFirstBrace ==
    (/\ Ended
     /\ HasCandidate(text)
     /\ Made(5)
     /\ Find(PotentialJson(text), "{") # 0
     /\ Find(PotentialJson(text), "{") < RegionEnd(text))
        => IF LiteralEval(RegionFromFirstBrace(text)).ok
           THEN /\ res.kind = "value"
                /\ res.val = LiteralEval(RegionFromFirstBrace(text)).val
           ELSE res.kind = "none"

\* the four parse attempts on the text t all failed
CascadeFailed(t) ==
    \A k \in 1..4 : ~Attempts(t)[k].ok /\ ~Attempts(t)[k].raise

\* the number of times the call ran the stage s
Times(s) == Cardinality({n \in 1..Len(res.ran) : res.ran[n] = s})

\* line 173: the region the scan delimits in the text t
Region(t) == SubSeq(PotentialJson(t), 1, RegionEnd(t))

\* C20: when all cascade stages have failed, extract_json returns None if
\* the scan reaches the end of the candidate without the depth returning to
\* zero, or if the lenient parse of the delimited region fails; only the
\* first region is tried, and a failure there ends the call with None, the
\* rest of the candidate not scanned.
C20_FallbackFailure ==
    (Ended /\ HasCandidate(text) /\ CascadeFailed(text)) =>
        /\ Times("scan") = 1
        /\ Times("literal_eval") <= 1
        /\ RegionEnd(text) = 0 =>
               (res.kind = "none" /\ Times("literal_eval") = 0)
        /\ (RegionEnd(text) # 0 /\ ~LiteralEval(Region(text)).ok) =>
               res.kind = "none"

\* the first region did not evaluate and None came back, though the rest of
\* the candidate holds a region that evaluates
C20_Witness ==
    /\ Ended
    /\ HasCandidate(text)
    /\ CascadeFailed(text)
    /\ RegionEnd(text) # 0
    /\ ~LiteralEval(Region(text)).ok
    /\ LET rest == Drop(PotentialJson(text), RegionEnd(text) + 1)
       IN  /\ BalancedEnd(rest, 1, 0) # 0
           /\ LiteralEval(SubSeq(rest, 1, BalancedEnd(rest, 1, 0))).ok
    /\ origin.wrap = "trailer"
    /\ res.kind = "none"

\* ------------------------------------------------------------------------
\* The repairs and the recovery of Python literals (claims C21 to C25)
\* ------------------------------------------------------------------------

\* C21: a candidate that is a brace-balanced Python-dict-style object
\* literal, with single- or double-quoted keys and string values of any
\* content, a trailing comma or none, and True, False and None, is
\* recovered as the equivalent object, every key and string value
\* unchanged.
C21_PyDictRecovery ==
    (Ended /\ origin.kind = "pyrepr")
        => (res.kind = "value" /\ PyEq(res.val, origin.v))

\* the number of consecutive backslashes that end just before index i of t
RECURSIVE BackslashesBefore(_, _)
BackslashesBefore(t, i) ==
    IF i > 1 /\ t[i - 1] = BSL THEN 1 + BackslashesBefore(t, i - 1) ELSE 0

\* C22: in a string, a double quote closes the string if and only if an
\* even number of consecutive backslashes precedes it; the escape flag is
\* set only for the character that follows a backslash, and it is false
\* whenever the scanner is outside a string.
C22_EscapeTracking ==
    /\ [][(pc = "scan" /\ pc' = "scan" /\ sc.in_string) =>
             /\ text[sc.i] = DQ =>
                    (~sc'.in_string <=> BackslashesBefore(text, sc.i) % 2 = 0)
             /\ text[sc.i] # DQ => sc'.in_string
             /\ sc.escape => text[sc.i - 1] = BSL
             /\ sc.escape <=> BackslashesBefore(text, sc.i) % 2 = 1]_vars
    /\ [](pc \in {"scan", "scan_done"} /\ ~sc.in_string => ~sc.escape)

\* a quote after two backslashes closed the string, the scan over
C22_Witness ==
    /\ pc = "scan_done"
    /\ text = <<DQ, BSL, BSL, DQ>>
    /\ ~sc.in_string
    /\ sc.result = text

\* the indices from i on at which t holds c followed by d
PairsFrom(t, i, c, d) == {j \in i..(Len(t) - 1) : t[j] = c /\ t[j + 1] = d}

\* the index after the // comment that begins at index i of t: that of the
\* newline that ends the line, past the end when there is none
AfterLineComment(t, i) ==
    IF \E j \in (i + 2)..Len(t) : t[j] = NL
    THEN Least({j \in (i + 2)..Len(t) : t[j] = NL})
    ELSE Len(t) + 1

\* the index after the /* comment that begins at index i of t: past the
\* first */ that follows, past the end when none follows
AfterBlockComment(t, i) ==
    IF PairsFrom(t, i + 2, "*", "/") # {}
    THEN Least(PairsFrom(t, i + 2, "*", "/")) + 2
    ELSE Len(t) + 1

\* a text without strings, from index i on, with its comments removed
RECURSIVE WithoutComments(_, _)
WithoutComments(t, i) ==
    IF i > Len(t) THEN <<>>
    ELSE IF StartsAt(t, i, <<"/", "/">>) THEN WithoutComments(t, AfterLineComment(t, i))
    ELSE IF StartsAt(t, i, <<"/", "*">>) THEN WithoutComments(t, AfterBlockComment(t, i))
    ELSE <<t[i]>> \o WithoutComments(t, i + 1)

\* C23: outside a string, a // discards itself and every character up to
\* the end of the line; a /* discards itself and everything up to and
\* including the first */ that follows, the whole rest when none follows;
\* every other character is emitted unchanged and in order, so that the
\* output is the input without its comments.
C23_CommentRemoval ==
    /\ [][(pc = "scan" /\ pc' = "scan" /\ ~sc.in_string /\ text[sc.i] # DQ) =>
             IF StartsAt(text, sc.i, <<"/", "/">>)
             THEN /\ sc'.result = sc.result
                  /\ sc'.i = AfterLineComment(text, sc.i)
             ELSE IF StartsAt(text, sc.i, <<"/", "*">>)
             THEN /\ sc'.result = sc.result
                  /\ IF PairsFrom(text, sc.i + 2, "*", "/") # {}
                     THEN sc'.i = AfterBlockComment(text, sc.i)
                     ELSE sc'.i > Len(text)
             ELSE /\ sc'.result = Append(sc.result, text[sc.i])
                  /\ sc'.i = sc.i + 1]_vars
    /\ []((pc = "scan_done" /\ Find(text, DQ) = 0)
              => sc.result = WithoutComments(text, 1))

\* a block comment was closed by the first */ that follows its opening, and
\* the */ after it came through
C23_Witness ==
    /\ pc = "scan_done"
    /\ text = <<"/", "*", "*", "/", "*", "/">>
    /\ sc.result = <<"*", "/">>

\* the double quotes of t that no backslash escapes: those preceded by an
\* even number of consecutive backslashes
UnescapedQuotes(t) ==
    {j \in 1..Len(t) : t[j] = DQ /\ BackslashesBefore(t, j) % 2 = 0}

\* the candidate up to the end of its line n
UpToLine(n) == JoinLines(SubSeq(FixLines, 1, n))

\* C24: after each line is processed, the open-string flag of
\* fix_multiline_strings is true exactly when the number of un-escaped
\* double quotes seen so far is odd, a quote after an escaped backslash
\* counted as un-escaped; a line is joined to the last output line with one
\* space exactly when the flag was true at the end of the line before it,
\* and every other line break is kept.
C24_OpenStringFlag ==
    /\ [](pc \in {"fix", "fix_done"} =>
             (fx.in_string <=>
                  Cardinality(UnescapedQuotes(UpToLine(fx.k - 1))) % 2 = 1))
    /\ [][(pc = "fix" /\ pc' = "fix") =>
             IF fx.in_string
             THEN /\ Len(fx'.result) = Len(fx.result)
                  /\ fx'.result[Len(fx.result)] =
                         fx.result[Len(fx.result)] \o <<" ">> \o FixLines[fx.k]
             ELSE fx'.result = Append(fx.result, FixLines[fx.k])]_vars

\* lines 121 and 158: the text the quote repair is applied to
ProcessedJson(t) == RemoveTrailingCommas(PotentialJson(t))

\* the character at index k of t lies inside a double-quoted string of t,
\* or closes it
InsideDoubleQuotes(t, k) == StringStateAt(t, k).in_string

\* s and r are equal in length and in every character that is inside a
\* double-quoted string of s
SameInStrings(s, r) ==
    /\ Len(r) = Len(s)
    /\ \A k \in 1..Len(s) : InsideDoubleQuotes(s, k) => r[k] = s[k]

\* C25: the two substitutions of the quote repair change no character
\* inside a string already delimited by double quotes, on every candidate
\* the repair is applied to, a double-quoted string that holds an
\* apostrophe followed by a colon included.  (Checked on the candidates
\* whose colons are followed by one space or none before a quote, so that
\* the substitutions keep every character at its index.)
C25_QuoteRepairFrame ==
    (Ended /\ HasCandidate(text) /\ Made(4)
           /\ Len(FixQuotes(ProcessedJson(text))) = Len(ProcessedJson(text)))
        => /\ SameInStrings(ProcessedJson(text), FixQuotedKeys(ProcessedJson(text)))
           /\ SameInStrings(FixQuotedKeys(ProcessedJson(text)),
                            FixQuotes(ProcessedJson(text)))

\* ------------------------------------------------------------------------
\* ContentExtractor.extract_with_jina (content_extractor.py lines 60-110),
\* called by one thread.  Its calls of _wait_for_rate_limit are the steps
\* of RateSpec taken by caller 1.
\* ------------------------------------------------------------------------

JinaInit ==
    /\ text = <<>>
    /\ npieces = 0
    /\ origin = Typed
    /\ pc = "jina"
    /\ res = Pending
    /\ first = Pending
    /\ log = 0
    /\ sc = ScanStart
    /\ bal = BalStart
    /\ fx = FixStart
    /\ RateStart
    /\ FlowStart

\* the rate variables that a step of extract_with_jina itself leaves alone
jinaFrame == <<request_times, last_request_time, lock, rpc, current_time,
               recorded, ncalls, idle>>

\* lines 66-67 and 78-84: the call; None for a url that is not http
JinaCall(url_ok, has_api_key) ==
    /\ jina.pc = "idle"
    /\ jina' = IF url_ok
               THEN [jina EXCEPT !.pc = "wait", !.url_ok = TRUE,
                                 !.has_api_key = has_api_key]
               ELSE [jina EXCEPT !.pc = "returned", !.result = "none"]
    /\ UNCHANGED now
    /\ UNCHANGED jinaFrame
    /\ UNCHANGED jsonVars
    /\ UNCHANGED flowVars

\* line 84 with a key, lines 27-30: a sleep of half a second, after which
\* the clock shows the same second or the next
JinaKeyWait ==
    /\ jina.pc = "wait"
    /\ jina.has_api_key
    /\ now' \in {now, now + 1}
    /\ jina' = [jina EXCEPT !.pc = "get"]
    /\ UNCHANGED jinaFrame
    /\ UNCHANGED jsonVars
    /\ UNCHANGED flowVars

\* line 84 without a key: a step of _wait_for_rate_limit(False)
JinaLimiter ==
    /\ jina.pc = "wait"
    /\ ~jina.has_api_key
    /\ \/ ncalls = jina.limited /\ Acquire(1)
       \/ ReadClock(1)
       \/ CheckLimit(1)
       \/ Interval(1)
       \/ Record(1)
       \/ Stamp(1)

\* line 84: _wait_for_rate_limit(False) returned
JinaLimited ==
    /\ jina.pc = "wait"
    /\ ~jina.has_api_key
    /\ rpc[1] = "idle"
    /\ ncalls = jina.limited + 1
    /\ jina' = [jina EXCEPT !.pc = "get", !.limited = ncalls]
    /\ UNCHANGED now
    /\ UNCHANGED jinaFrame
    /\ UNCHANGED jsonVars
    /\ UNCHANGED flowVars

\* what the server answers: 200, 429, another status, or no answer at all
\* (requests.get raises)
Responses == {"200", "429", "other", "raised"}

\* lines 86-110: the request and its answer
JinaGet(response) ==
    /\ jina.pc = "get"
    /\ jina' = CASE response = "200" ->
                      [jina EXCEPT !.pc = "returned", !.result = "content",
                                   !.requests = @ + 1]
                 [] response = "429" ->
                      [jina EXCEPT !.pc = "sleep", !.requests = @ + 1]
                 [] OTHER ->
                      [jina EXCEPT !.pc = "returned", !.result = "none",
                                   !.requests = @ + 1]
    /\ UNCHANGED now
    /\ UNCHANGED jinaFrame
    /\ UNCHANGED jsonVars
    /\ UNCHANGED flowVars

\* lines 103-104: the sleep of 60 seconds and the call of extract_with_jina
\* by itself, whose result is the result of this call
JinaRetry ==
    /\ jina.pc = "sleep"
    /\ jina.requests < MaxRequests
    /\ now' = now + 60
    /\ jina' = [jina EXCEPT !.pc = "wait"]
    /\ UNCHANGED jinaFrame
    /\ UNCHANGED jsonVars
    /\ UNCHANGED flowVars

JinaNext ==
    \/ \E url_ok, has_api_key \in BOOLEAN : JinaCall(url_ok, has_api_key)
    \/ JinaKeyWait
    \/ JinaLimiter
    \/ JinaLimited
    \/ \E response \in Responses : JinaGet(response)
    \/ JinaRetry
    \/ Tick

JinaSpec == JinaInit /\ [][JinaNext]_vars

\* C26: on a 429 extract_with_jina waits and retries once: whatever the
\* server answers, one call issues at most two requests, and it returns
\* after the second.
C26_RetryOnce ==
    /\ jina.requests <= 2
    /\ jina.requests = 2 => jina.pc = "returned"

\* ------------------------------------------------------------------------
\* The analysis loop of run() and its checkpoint (claims C27 and C30)
\* ------------------------------------------------------------------------

\* C27: during the analysis loop analyzed_signals.json is rewritten after
\* every successful analysis: between two iterations the file holds every
\* signal analysed so far in this run.
C27_IncrementalCheckpoint ==
    fpc = "loop" =>
        /\ loop.saved = loop.analyzed
        /\ loop.analyzed > 0 => ckpt_files[run_id].analyzed = "full"

\* ------------------------------------------------------------------------
\* FinAgent.analyze_signal, its second phase (fin_agent.py lines 102-132):
\* the analyst is asked until its answer gives a signal.
\* ------------------------------------------------------------------------

\* the run did that, and did it before something else
Did(e) == \E i \in 1..Len(events) : events[i] = e

DidBefore(e, f) ==
    \E i \in 1..Len(events) : \E j \in (i + 1)..Len(events) :
        events[i] = e /\ events[j] = f

FinInit ==
    /\ text = <<>>
    /\ npieces = 0
    /\ origin = Typed
    /\ pc = "fin"
    /\ res = Pending
    /\ first = Pending
    /\ log = 0
    /\ sc = ScanStart
    /\ bal = BalStart
    /\ fx = FixStart
    /\ RateStart
    /\ FlowStart

\* the workflow variables that analyze_signal leaves alone
finFrame == <<ckpt_files, existed, entry, args, fpc, run_id, events, loop,
              wr>>

\* a sleep as long for every attempt but the first as for the second
BackoffFlat(attempt) == IF attempt = 0 THEN 1 ELSE 2

\* line 128: the seconds slept after the attempt of that index
Backoff(attempt) == 2 ^ attempt

\* what an attempt meets: the answer gives a signal; extract_json returns
\* None; it returns an empty value; analyst.run raises; the value is
\* rejected by InvestmentSignal
FinOutcomes == {"signal", "none", "empty", "run_raises", "rejected"}

\* line 102: the call and its loop; with max_retries = 0 the loop has no
\* iteration and the call returns None
FinCall(n) ==
    /\ fin.pc = "idle"
    /\ fin' = IF n = 0
              THEN [fin EXCEPT !.pc = "returned", !.result = "none"]
              ELSE [fin EXCEPT !.pc = "attempt", !.max_retries = n]
    /\ UNCHANGED finFrame
    /\ UNCHANGED jsonVars
    /\ UNCHANGED rateVars

\* lines 103-132: one attempt, up to the return or to the sleep
FinAttempt(outcome) ==
    /\ fin.pc = "attempt"
    /\ fin' = [fin EXCEPT
                  !.invoked = @ + 1,
                  !.responses = Append(@, outcome),
                  !.pc = IF outcome = "signal" THEN "returned"
                         ELSE IF fin.attempt < fin.max_retries - 1 THEN "sleep"
                         ELSE "returned",
                  !.result = IF outcome = "signal" THEN "signal"
                             ELSE IF fin.attempt < fin.max_retries - 1 THEN @
                             ELSE "none"]
    /\ UNCHANGED finFrame
    /\ UNCHANGED jsonVars
    /\ UNCHANGED rateVars

\* line 128 and the next iteration of the for loop
FinSleep ==
    /\ fin.pc = "sleep"
    /\ fin' = [fin EXCEPT !.sleeps = Append(@, Backoff(fin.attempt)),
                          !.attempt = @ + 1,
                          !.pc = "attempt"]
    /\ UNCHANGED finFrame
    /\ UNCHANGED jsonVars
    /\ UNCHANGED rateVars

FinNext ==
    \/ \E n \in 0..MaxRetries : FinCall(n)
    \/ \E outcome \in FinOutcomes : FinAttempt(outcome)
    \/ FinSleep

FinSpec == FinInit /\ [][FinNext]_vars

\* C28: with max_retries = n >= 1 the analyst is invoked at most n times;
\* an attempt without an extracted value, or that raises, is followed by a
\* sleep of 2^k seconds (k its 0-based index) and a new attempt, except
\* after the last; the call returns the signal of the first attempt that
\* succeeds, and None, never raising, once all n attempts have failed.
C28_RetryOnAbsentValue ==
    fin.max_retries >= 1 =>
        /\ fin.invoked <= fin.max_retries
        /\ fin.pc \in {"attempt", "sleep", "returned"}
        /\ \A k \in 1..Len(fin.sleeps) :
               /\ fin.sleeps[k] = 2 ^ (k - 1)
               /\ fin.responses[k] # "signal"
        /\ fin.pc = "attempt" => Len(fin.sleeps) = fin.invoked
        /\ fin.pc = "sleep" =>
               /\ Len(fin.sleeps) = fin.invoked - 1
               /\ fin.invoked < fin.max_retries
        /\ fin.pc = "returned" =>
               /\ Len(fin.sleeps) = fin.invoked - 1
               /\ \A k \in 1..(fin.invoked - 1) : fin.responses[k] # "signal"
               /\ fin.result = "signal" <=> fin.responses[fin.invoked] = "signal"
               /\ fin.result = "none" <=>
                      /\ fin.responses[fin.invoked] # "signal"
                      /\ fin.invoked = fin.max_retries

\* the third attempt gave the signal, after sleeps of 1 and 2 seconds
C28_Witness ==
    /\ fin.pc = "returned"
    /\ fin.result = "signal"
    /\ fin.invoked = 3
    /\ fin.max_retries > 3
    /\ fin.sleeps = <<1, 2>>

\* ------------------------------------------------------------------------
\* CheckpointManager.save_text and save_json over _atomic_write_text
\* (checkpointing.py lines 10-27, 55-75), step by step, with readers that
\* load the same file (load_text, load_json) between the steps. Each step
\* of the write succeeds or raises.
\* ------------------------------------------------------------------------

WriteInit ==
    /\ text = <<>>
    /\ npieces = 0
    /\ origin = Typed
    /\ pc = "write"
    /\ res = Pending
    /\ first = Pending
    /\ log = 0
    /\ sc = ScanStart
    /\ bal = BalStart
    /\ fx = FixStart
    /\ RateStart
    /\ ckpt_files = [r \in RunIds |-> NoDir]
    /\ existed = {}
    /\ entry = "none"
    /\ args = [resume |-> FALSE, run_id |-> 0]
    /\ fpc = "start"
    /\ run_id = 0
    /\ events = <<>>
    /\ loop = LoopStart
    /\ fin = FinStart
    /\ wr \in {WriteStart(f) : f \in {NoFile} \cup {File(c) : c \in Contents}}

\* the workflow variables that a save leaves alone
writeFrame == <<ckpt_files, existed, entry, args, fpc, run_id, events, loop,
                fin>>

\* what the target path holds
TargetFile == IF wr.target = 0 THEN NoFile ELSE File(wr.files[wr.target])

\* lines 55-57 and 71-73 (with line 26 for save_json, whose content is the
\* text json.dumps gives): the call of a save with that content; a
\* temporary file an earlier save left stays in the directory
SaveCall(content) ==
    /\ wr.pc \in {"idle", "returned"}
    /\ wr.saves < MaxSaves
    /\ wr' = [wr EXCEPT !.pc = "mkstemp",
                        !.saves = @ + 1,
                        !.content = content,
                        !.prev = TargetFile,
                        !.raised = FALSE,
                        !.left = @ \cup (IF wr.tmp = 0 THEN {} ELSE {wr.tmp}),
                        !.tmp = 0]
    /\ UNCHANGED writeFrame
    /\ UNCHANGED jsonVars
    /\ UNCHANGED rateVars

\* lines 11-12: os.makedirs and tempfile.mkstemp, before the try: an empty
\* temporary file of a fresh name, or an exception that the save catches
\* (lines 58-59, 74-75)
Mkstemp(ok) ==
    /\ wr.pc = "mkstemp"
    /\ wr' = IF ok
             THEN [wr EXCEPT !.pc = "write",
                             !.tmp = wr.saves + 1,
                             !.files[wr.saves + 1] = <<>>]
             ELSE [wr EXCEPT !.pc = "returned", !.raised = TRUE]
    /\ UNCHANGED writeFrame
    /\ UNCHANGED jsonVars
    /\ UNCHANGED rateVars

\* lines 14-15: os.fdopen, f.write and the close of the with block: one
\* more character reaches the temporary file, or the step raises and the
\* file keeps what reached it
Write(ok) ==
    /\ wr.pc = "write"
    /\ wr' = IF ok
             THEN LET n == Len(wr.files[wr.tmp]) + 1 IN
                  [wr EXCEPT !.files[wr.tmp] = Append(@, wr.content[n]),
                             !.pc = IF n = Len(wr.content) THEN "replace"
                                    ELSE "write"]
             ELSE [wr EXCEPT !.pc = "finally", !.raised = TRUE]
    /\ UNCHANGED writeFrame
    /\ UNCHANGED jsonVars
    /\ UNCHANGED rateVars

\* line 16: os.replace(tmp_path, path): the target path names the inode of
\* the temporary file and tmp_path names nothing, in one step; or it raises
Replace(ok) ==
    /\ wr.pc = "replace"
    /\ wr' = IF ok
             THEN [wr EXCEPT !.pc = "finally", !.target = wr.tmp, !.tmp = 0]
             ELSE [wr EXCEPT !.pc = "finally", !.raised = TRUE]
    /\ UNCHANGED writeFrame
    /\ UNCHANGED jsonVars
    /\ UNCHANGED rateVars

\* lines 17-22 and the return of the save (lines 58-59, 74-75 when an
\* exception is on its way): os.remove is called when tmp_path exists, and
\* an OSError it raises is passed over
Cleanup(ok) ==
    /\ wr.pc = "finally"
    /\ wr.tmp = 0 => ok
    /\ wr' = [wr EXCEPT !.pc = "returned",
                        !.tmp = IF ok THEN 0 ELSE @]
    /\ UNCHANGED writeFrame
    /\ UNCHANGED jsonVars
    /\ UNCHANGED rateVars

\* lines 63-65 (79-81) and the open of line 30 (35): a reader finds no file
\* at the path and returns the default, or opens the file the path names
LoadOpen(r) ==
    /\ wr.readers[r].pc = "idle"
    /\ wr' = IF wr.target = 0
             THEN [wr EXCEPT !.readers[r].pc = "done"]
             ELSE [wr EXCEPT !.readers[r].pc = "open",
                             !.readers[r].ino = wr.target]
    /\ UNCHANGED writeFrame
    /\ UNCHANGED jsonVars
    /\ UNCHANGED rateVars

\* lines 31 and 36: the reader reads the file it opened to its end
LoadRead(r) ==
    /\ wr.readers[r].pc = "open"
    /\ wr' = [wr EXCEPT !.readers[r].pc = "done",
                        !.readers[r].got = File(wr.files[wr.readers[r].ino])]
    /\ UNCHANGED writeFrame
    /\ UNCHANGED jsonVars
    /\ UNCHANGED rateVars

WriteNext ==
    \/ \E content \in Contents : SaveCall(content)
    \/ \E ok \in BOOLEAN : Mkstemp(ok)
    \/ \E ok \in BOOLEAN : Write(ok)
    \/ \E ok \in BOOLEAN : Replace(ok)
    \/ \E ok \in BOOLEAN : Cleanup(ok)
    \/ \E r \in 1..NumReaders : LoadOpen(r)
    \/ \E r \in 1..NumReaders : LoadRead(r)

WriteSpec == WriteInit /\ [][WriteNext]_vars

\* the files a reader may be given whole
WholeFiles == {NoFile} \cup {File(c) : c \in Contents}

\* C29: while a save runs and after it, the target path holds the whole
\* content it held at the call or the whole new content, every reader that
\* finished was given a whole file or the default, and when the save has
\* returned, normally or after a caught error, tmp_path names no file.
C29_AtomicWrite ==
    /\ wr.pc # "idle" => TargetFile \in {wr.prev, File(wr.content)}
    /\ \A r \in 1..NumReaders :
           wr.readers[r].pc = "done" => wr.readers[r].got \in WholeFiles
    /\ wr.pc = "returned" => wr.tmp = 0

====
